---- MODULE Spec2Model ----
(***************************************************************************)
(* Verification model of xurl: subagent correlation (Codex parent-rollout   *)
(* replay, Claude sidechain discovery) and timeline extraction.             *)
(***************************************************************************)
EXTENDS Integers, Sequences, FiniteSets, TLC

VARIABLES
    provider,     \* uri.provider of the subagent query
    parentRaw,    \* lines of the Codex parent rollout file (main thread)
    childRaw,     \* Codex child rollouts by agent id: file or NoFile
    claudeFiles,  \* Claude candidate files agent-*.jsonl by path
    view,         \* result of the last resolve_subagent_view call
    threadKind,   \* ProviderKind of the thread being rendered
    threadRaw,    \* records of the thread file being rendered
    extracted,    \* result of the last extraction over threadRaw
    uriHead,      \* the thread URI given on the command line: its beginning
    uriTarget,    \* ... and the pieces typed after it
    parsed,       \* result of the last ThreadUri::parse of that input
    rendered,     \* as_string of the parsed ThreadUri, once written out
    threadFile,   \* the thread file on disk that the turl command looks for
    cli,          \* outcome of the last run of the turl command
    sessionFiles, \* the files under the providers' scan roots, in walk order
    sessions,     \* result of the last list_active_sessions call
    readerFile,   \* the bytes of the file an IncrementalReader follows
    reader,       \* the IncrementalReader and what its calls have returned
    infos         \* result of the last list_subagents call

vars == <<provider, parentRaw, childRaw, claudeFiles, view,
          threadKind, threadRaw, extracted,
          uriHead, uriTarget, parsed, rendered,
          threadFile, cli,
          sessionFiles, sessions,
          readerFile, reader, infos>>

subagentVars == <<provider, parentRaw, childRaw, claudeFiles, view, infos>>
threadVars == <<threadKind, threadRaw, extracted>>
uriVars == <<uriHead, uriTarget, parsed, rendered>>
cliVars == <<threadFile, cli>>
sessionVars == <<sessionFiles, sessions>>
readerVars == <<readerFile, reader>>

None == "none"

\* ------------------------------------------------------------------------
\* Bounds
\* ------------------------------------------------------------------------
\* total number of lines on disk (Codex parent rollout + child rollout)
MaxLines == 4
\* total number of lines on disk in the Claude candidate files
MaxClaudeLines == 3
\* records in a rendered thread file
MaxRecords == 2
\* items in the content list of a rendered message
MaxItems == 3
\* pieces typed after the beginning of a thread URI
MaxChunks == 3

\* ------------------------------------------------------------------------
\* Status tokens (service.rs:28-34)
\* ------------------------------------------------------------------------
STATUS_PENDING_INIT == "pendingInit"
STATUS_RUNNING == "running"
STATUS_COMPLETED == "completed"
STATUS_ERRORED == "errored"
STATUS_SHUTDOWN == "shutdown"
STATUS_NOT_FOUND == "notFound"

\* ------------------------------------------------------------------------
\* Sequence helpers
\* ------------------------------------------------------------------------
Range(s) == {s[i] : i \in DOMAIN s}

\* iter().any(|x| x == v)
AnyEq(s, v) == \E i \in DOMAIN s : s[i] = v

\* ------------------------------------------------------------------------
\* Text: a string is a sequence of characters
\* ------------------------------------------------------------------------
IsWhitespace(c) == c \in {" ", "\n"}

RECURSIVE TrimStart(_)
TrimStart(s) ==
    IF s = <<>> THEN <<>>
    ELSE IF IsWhitespace(Head(s)) THEN TrimStart(Tail(s)) ELSE s

RECURSIVE TrimEnd(_)
TrimEnd(s) ==
    IF s = <<>> THEN <<>>
    ELSE IF IsWhitespace(s[Len(s)]) THEN TrimEnd(SubSeq(s, 1, Len(s) - 1)) ELSE s

\* str::trim
Trim(s) == TrimEnd(TrimStart(s))

\* chunks.join("\n\n")
RECURSIVE Join(_)
Join(chunks) ==
    IF chunks = <<>> THEN <<>>
    ELSE IF Len(chunks) = 1 THEN chunks[1]
    ELSE chunks[1] \o <<"\n", "\n">> \o Join(Tail(chunks))

\* ------------------------------------------------------------------------
\* Timeline extraction (render.rs)
\* ------------------------------------------------------------------------
\* variant: function_result is not a tool type
TOOL_TYPES_NoFunctionResult ==
    {"tool_call", "tool_result", "tool_use", "function_call", "function_response"}

TOOL_TYPES ==
    {"tool_call", "tool_result", "tool_use",
     "function_call", "function_result", "function_response"}

\* A content item is a JSON string [k |-> "str", s |-> text] or a JSON
\* object [k |-> "obj", type, text, input_text, output_text, thinking]; an
\* absent string field is the empty text (get(..).and_then(as_str) followed
\* by the trim().is_empty() test treats both alike).
StringItem(text) == [k |-> "str", s |-> text]

NoItem ==
    [k |-> "obj", type |-> None, text |-> <<>>,
     input_text |-> <<>>, output_text |-> <<>>, thinking |-> <<>>]

\* {"type": item_type, "text": text}
TextItem(item_type, text) == [NoItem EXCEPT !.type = item_type, !.text = text]

\* content: [k |-> "absent"], [k |-> "string", s], [k |-> "array", items],
\* or [k |-> "other"] (object, number, ...)
NoContent == [k |-> "absent"]
StringContent(text) == [k |-> "string", s |-> text]
ArrayContent(items) == [k |-> "array", items |-> items]

\* One decoded transcript record.  type: "type"; ptype: payload.type (Codex);
\* subtype: "subtype" (Claude); role: payload.role (Codex), message.role
\* (Claude, Opencode), "role" (Amp); has_message: a "message" member exists
\* (Claude, Opencode); content: payload.content (Codex), message.content
\* (Claude), "content" (Amp, Gemini); display: "displayContent" (Gemini);
\* message: payload.message (Codex); parts: "parts" (Opencode).
NoRecordFields ==
    [k |-> "json", type |-> None, ptype |-> None, subtype |-> None,
     role |-> None, has_message |-> FALSE, content |-> NoContent,
     display |-> NoContent, message |-> <<>>, parts |-> <<>>,
     isCompactSummary |-> FALSE]

CodexRecord(type, ptype, role, content, message) ==
    [NoRecordFields EXCEPT !.type = type, !.ptype = ptype, !.role = role,
                           !.content = content, !.message = message]

ClaudeMessage(type, role, content) ==
    [NoRecordFields EXCEPT !.type = type, !.has_message = TRUE, !.role = role,
                           !.content = content]

OpencodeMessage(type, role, parts) ==
    [NoRecordFields EXCEPT !.type = type, !.has_message = TRUE, !.role = role,
                           !.parts = parts]

AmpMessage(role, content) ==
    [NoRecordFields EXCEPT !.role = role, !.content = content]

GeminiMessage(type, display, content) ==
    [NoRecordFields EXCEPT !.type = type, !.display = display, !.content = content]

BlankLine == [k |-> "blank"]
GarbageLine == [k |-> "garbage"]

\* The chunk one item contributes: <<>> when it contributes nothing.
ItemChunk(item) ==
    IF item.k = "str"
    THEN (IF Trim(item.s) # <<>> THEN <<Trim(item.s)>> ELSE <<>>)
    ELSE IF item.type # None /\ item.type \in TOOL_TYPES
    THEN <<>>
    ELSE IF Trim(item.text) # <<>>
    THEN <<Trim(item.text)>>
    ELSE IF Trim(item.input_text) # <<>>
    THEN <<Trim(item.input_text)>>
    ELSE IF Trim(item.output_text) # <<>>
    THEN <<Trim(item.output_text)>>
    ELSE <<>>

RECURSIVE TextChunks(_)
TextChunks(items) ==
    IF items = <<>> THEN <<>>
    ELSE ItemChunk(Head(items)) \o TextChunks(Tail(items))

extract_text(content) ==
    IF content.k = "absent" THEN <<>>
    ELSE IF content.k = "string" THEN content.s
    ELSE IF content.k # "array" THEN <<>>
    ELSE Join(TextChunks(content.items))

\* variant: every role but "user" is the assistant's
parse_role_OtherIsAssistant(role) ==
    IF role = "user" THEN "User"
    ELSE "Assistant"

parse_role(role) ==
    IF role = "user" THEN "User"
    ELSE IF role = "assistant" THEN "Assistant"
    ELSE None

parse_gemini_role(role) ==
    IF role = "user" THEN "User"
    ELSE IF role = "gemini" THEN "Assistant"
    ELSE None

\* Option<ThreadMessage>
NoMessage == [k |-> "none"]
ThreadMessage(role, text) == [k |-> "msg", role |-> role, text |-> text]

\* value: one decoded Codex record [type, ptype, role, content, message]
\* (ptype = payload.type, role = payload.role, content = payload.content,
\* message = payload.message)
extract_codex_message(value) ==
    IF value.type = None THEN NoMessage
    ELSE IF value.type = "response_item"
    THEN IF value.ptype = None \/ value.ptype # "message" THEN NoMessage
         ELSE IF value.role = None \/ parse_role(value.role) = None THEN NoMessage
         ELSE IF Trim(extract_text(value.content)) = <<>> THEN NoMessage
         ELSE ThreadMessage(parse_role(value.role), extract_text(value.content))
    ELSE IF value.type = "event_msg" /\ value.ptype = "agent_message"
    THEN IF Trim(value.message) = <<>> THEN NoMessage
         ELSE ThreadMessage("Assistant", value.message)
    ELSE NoMessage

\* TimelineEntry; line is the position of the source record in the file
\* (kept by the model to relate an entry to its record)
MessageEntry(message, line) ==
    [kind |-> "Message", role |-> message.role, text |-> message.text, line |-> line]

\* summary: Option<String>
NoSummary == [some |-> FALSE, text |-> <<>>]
SomeSummary(text) == [some |-> TRUE, text |-> text]

CompactEntry(summary, line) == [kind |-> "Compact", summary |-> summary, line |-> line]

NoEntry == [kind |-> "none"]

ToEntry(message, line) ==
    IF message.k = "msg" THEN MessageEntry(message, line) ELSE NoEntry

is_codex_compact_event(value) ==
    \/ value.type = "compacted"
    \/ value.type = "event_msg" /\ value.ptype = "context_compacted"

extract_codex_entry(value, line) ==
    IF extract_codex_message(value).k = "msg"
    THEN MessageEntry(extract_codex_message(value), line)
    ELSE IF is_codex_compact_event(value) THEN CompactEntry(NoSummary, line)
    ELSE NoEntry

extract_claude_message(value) ==
    IF value.type = None THEN NoMessage
    ELSE IF value.type # "user" /\ value.type # "assistant" THEN NoMessage
    ELSE IF ~value.has_message THEN NoMessage
    ELSE LET role == IF value.role # None THEN value.role ELSE value.type
         IN IF parse_role(role) = None THEN NoMessage
            ELSE IF Trim(extract_text(value.content)) = <<>> THEN NoMessage
            ELSE ThreadMessage(parse_role(role), extract_text(value.content))

is_claude_compact_boundary(value) ==
    value.type = "system" /\ value.subtype = "compact_boundary"

is_claude_compact_summary(value) ==
    value.type = "user" /\ value.isCompactSummary

\* variant: the isCompactSummary flag is not looked at
extract_claude_entry_NoSummaryFlag(value, line) ==
    IF is_claude_compact_boundary(value) THEN CompactEntry(NoSummary, line)
    ELSE ToEntry(extract_claude_message(value), line)

extract_claude_entry(value, line) ==
    IF is_claude_compact_boundary(value) THEN CompactEntry(NoSummary, line)
    ELSE IF is_claude_compact_summary(value)
    THEN IF extract_claude_message(value).k = "msg"
         THEN CompactEntry(SomeSummary(extract_claude_message(value).text), line)
         ELSE CompactEntry(NoSummary, line)
    ELSE ToEntry(extract_claude_message(value), line)

\* the chunk one part contributes in extract_opencode_message
PartChunk(part) ==
    IF part.k # "obj" \/ part.type = None THEN <<>>
    ELSE IF part.type # "text" /\ part.type # "reasoning" THEN <<>>
    ELSE IF Trim(part.text) # <<>> THEN <<Trim(part.text)>>
    ELSE <<>>

RECURSIVE PartChunks(_)
PartChunks(parts) ==
    IF parts = <<>> THEN <<>>
    ELSE PartChunk(Head(parts)) \o PartChunks(Tail(parts))

extract_opencode_message(value) ==
    IF value.type = None \/ value.type # "message" THEN NoMessage
    ELSE IF ~value.has_message THEN NoMessage
    ELSE IF value.role = None \/ parse_role(value.role) = None THEN NoMessage
    ELSE IF PartChunks(value.parts) = <<>> THEN NoMessage
    ELSE ThreadMessage(parse_role(value.role), Join(PartChunks(value.parts)))

\* the chunk one item contributes in extract_amp_text
AmpChunk(item) ==
    IF item.k # "obj" \/ item.type = None THEN <<>>
    ELSE IF item.type = "text" /\ Trim(item.text) # <<>> THEN <<Trim(item.text)>>
    ELSE IF item.type = "thinking" /\ Trim(item.thinking) # <<>> THEN <<Trim(item.thinking)>>
    ELSE <<>>

RECURSIVE AmpChunks(_)
AmpChunks(items) ==
    IF items = <<>> THEN <<>>
    ELSE AmpChunk(Head(items)) \o AmpChunks(Tail(items))

extract_amp_text(content) ==
    IF content.k # "array" THEN <<>> ELSE Join(AmpChunks(content.items))

\* the body of the loop of extract_amp_messages over one message
extract_amp_message(message) ==
    IF message.role = None \/ parse_role(message.role) = None THEN NoMessage
    ELSE IF Trim(extract_amp_text(message.content)) = <<>> THEN NoMessage
    ELSE ThreadMessage(parse_role(message.role), extract_amp_text(message.content))

\* the body of the loop of extract_gemini_messages over one message
extract_gemini_message(message) ==
    IF message.type = None \/ parse_gemini_role(message.type) = None THEN NoMessage
    ELSE LET text == IF Trim(extract_text(message.display)) = <<>>
                     THEN extract_text(message.content)
                     ELSE extract_text(message.display)
         IN IF Trim(text) = <<>> THEN NoMessage
            ELSE ThreadMessage(parse_gemini_role(message.type), text)

LineProviders == {"codex", "claude", "opencode"}
DocumentProviders == {"amp", "gemini"}
Providers == LineProviders \cup DocumentProviders

\* the match on provider in the loop of extract_timeline_entries
ExtractRecord(kind, value, line) ==
    IF kind = "codex" THEN extract_codex_entry(value, line)
    ELSE IF kind = "claude" THEN extract_claude_entry(value, line)
    ELSE IF kind = "opencode" THEN ToEntry(extract_opencode_message(value), line)
    ELSE IF kind = "amp" THEN ToEntry(extract_amp_message(value), line)
    ELSE ToEntry(extract_gemini_message(value), line)

\* Result<Vec<TimelineEntry>>
\* source_path of the thread file
ThreadPath == "/tmp/mock"

OkEntries(entries) ==
    [ok |-> TRUE, entries |-> entries, error |-> None, line |-> 0, path |-> None]
InvalidJsonLine(line) ==
    [ok |-> FALSE, entries |-> <<>>, error |-> "InvalidJsonLine", line |-> line,
     path |-> ThreadPath]

\* variant: a line that does not decode is skipped
RECURSIVE ExtractLines_SkipInvalid(_, _, _, _)
ExtractLines_SkipInvalid(kind, raw, line_no, entries) ==
    IF line_no > Len(raw) THEN OkEntries(entries)
    ELSE IF raw[line_no].k \in {"blank", "garbage"}
    THEN ExtractLines_SkipInvalid(kind, raw, line_no + 1, entries)
    ELSE IF ExtractRecord(kind, raw[line_no], line_no).kind = "none"
    THEN ExtractLines_SkipInvalid(kind, raw, line_no + 1, entries)
    ELSE ExtractLines_SkipInvalid(kind, raw, line_no + 1,
                      Append(entries, ExtractRecord(kind, raw[line_no], line_no)))

\* variant: a new entry is put in front of the entries collected so far
RECURSIVE ExtractLines_Prepend(_, _, _, _)
ExtractLines_Prepend(kind, raw, line_no, entries) ==
    IF line_no > Len(raw) THEN OkEntries(entries)
    ELSE IF raw[line_no].k = "blank"
    THEN ExtractLines_Prepend(kind, raw, line_no + 1, entries)
    ELSE IF raw[line_no].k = "garbage" THEN InvalidJsonLine(line_no)
    ELSE IF ExtractRecord(kind, raw[line_no], line_no).kind = "none"
    THEN ExtractLines_Prepend(kind, raw, line_no + 1, entries)
    ELSE ExtractLines_Prepend(kind, raw, line_no + 1,
                              <<ExtractRecord(kind, raw[line_no], line_no)>> \o entries)

\* the loop over raw.lines().enumerate(), from line_no on
RECURSIVE ExtractLines(_, _, _, _)
ExtractLines(kind, raw, line_no, entries) ==
    IF line_no > Len(raw) THEN OkEntries(entries)
    ELSE IF raw[line_no].k = "blank"
    THEN ExtractLines(kind, raw, line_no + 1, entries)
    ELSE IF raw[line_no].k = "garbage" THEN InvalidJsonLine(line_no)
    ELSE IF ExtractRecord(kind, raw[line_no], line_no).kind = "none"
    THEN ExtractLines(kind, raw, line_no + 1, entries)
    ELSE ExtractLines(kind, raw, line_no + 1,
                      Append(entries, ExtractRecord(kind, raw[line_no], line_no)))

\* extract_amp_messages / extract_gemini_messages: the file is one JSON
\* document; raw holds the members of its "messages" array, and a member
\* that does not decode makes the whole document undecodable
ExtractDocument(kind, raw) ==
    IF \E i \in DOMAIN raw : raw[i].k = "garbage" THEN InvalidJsonLine(1)
    ELSE LET all == [i \in DOMAIN raw |->
                        IF raw[i].k = "blank" THEN NoEntry
                        ELSE ExtractRecord(kind, raw[i], i)]
         IN OkEntries(SelectSeq(all, LAMBDA e : e.kind # "none"))

extract_timeline_entries(kind, raw) ==
    IF kind \in DocumentProviders THEN ExtractDocument(kind, raw)
    ELSE ExtractLines(kind, raw, 1, <<>>)

extract_messages(kind, raw) ==
    IF ~extract_timeline_entries(kind, raw).ok THEN extract_timeline_entries(kind, raw)
    ELSE OkEntries(SelectSeq(extract_timeline_entries(kind, raw).entries,
                             LAMBDA e : e.kind = "Message"))

\* "Context was compacted."
COMPACT_PLACEHOLDER ==
    <<"C", "o", "n", "t", "e", "x", "t", " ", "w", "a", "s", " ",
      "c", "o", "m", "p", "a", "c", "t", "e", "d", ".">>

\* the "## {idx + 1}. {title}" heading and the body render_markdown writes
\* for one entry; line is the entry's source record
Section(idx, entry) ==
    [number |-> idx,
     title |-> IF entry.kind = "Compact" THEN "Context Compacted" ELSE entry.role,
     body |-> IF entry.kind = "Message" THEN Trim(entry.text)
              ELSE IF entry.summary.some THEN Trim(entry.summary.text)
              ELSE Trim(COMPACT_PLACEHOLDER),
     line |-> entry.line]

\* the sections of the markdown document; <<>> stands for the document that
\* holds the "_No user/assistant messages or compact events found._" notice,
\* and for no document at all when extraction failed
render_markdown(kind, raw) ==
    IF ~extract_timeline_entries(kind, raw).ok THEN <<>>
    ELSE [idx \in DOMAIN extract_timeline_entries(kind, raw).entries |->
            Section(idx, extract_timeline_entries(kind, raw).entries[idx])]


\* ------------------------------------------------------------------------
\* Thread URIs (uri.rs)
\* ------------------------------------------------------------------------
UpperLetters == <<"A", "B", "C", "D", "E", "F", "G", "H", "I", "J", "K", "L", "M", "N", "O", "P", "Q", "R", "S", "T", "U", "V", "W", "X", "Y", "Z">>
LowerLetters == <<"a", "b", "c", "d", "e", "f", "g", "h", "i", "j", "k", "l", "m", "n", "o", "p", "q", "r", "s", "t", "u", "v", "w", "x", "y", "z">>

\* u8::to_ascii_lowercase on one character
CharToAsciiLowercase(c) ==
    IF \E i \in DOMAIN UpperLetters : UpperLetters[i] = c
    THEN LowerLetters[CHOOSE i \in DOMAIN UpperLetters : UpperLetters[i] = c]
    ELSE c

to_ascii_lowercase(s) == [i \in DOMAIN s |-> CharToAsciiLowercase(s[i])]

Digits == {"0", "1", "2", "3", "4", "5", "6", "7", "8", "9"}

\* [0-9a-f] under (?i)
IsHexDigit(c) == c \in Digits \cup {"a", "b", "c", "d", "e", "f", "A", "B", "C", "D", "E", "F"}

\* [0-9A-Za-z]
IsAlphanumeric(c) ==
    c \in Digits \/ \E i \in DOMAIN UpperLetters : c = UpperLetters[i] \/ c = LowerLetters[i]

\* the group lengths {8}-{4}-{4}-{4}-{12} of the UUID pattern
UuidGroups == <<8, 4, 4, 4, 12>>

RECURSIVE UuidDashPositions(_, _)
\* positions of the "-" separators: after each group but the last
UuidDashPositions(groups, offset) ==
    IF Len(groups) <= 1 THEN {}
    ELSE {offset + Head(groups) + 1}
            \cup UuidDashPositions(Tail(groups), offset + Head(groups) + 1)

RECURSIVE SumSeq(_)
SumSeq(q) == IF q = <<>> THEN 0 ELSE Head(q) + SumSeq(Tail(q))

UuidLength == SumSeq(UuidGroups) + Len(UuidGroups) - 1

\* SESSION_ID_RE.is_match:
\* (?i)^[0-9a-f]{8}-[0-9a-f]{4}-[0-9a-f]{4}-[0-9a-f]{4}-[0-9a-f]{12}$
SESSION_ID_RE(id) ==
    /\ Len(id) = UuidLength
    /\ \A i \in DOMAIN id :
          IF i \in UuidDashPositions(UuidGroups, 0) THEN id[i] = "-" ELSE IsHexDigit(id[i])

\* AMP_SESSION_ID_RE.is_match: (?i)^t- followed by the UUID pattern
AMP_SESSION_ID_RE(id) ==
    /\ Len(id) = UuidLength + 2
    /\ id[1] \in {"t", "T"}
    /\ id[2] = "-"
    /\ SESSION_ID_RE(SubSeq(id, 3, Len(id)))

\* OPENCODE_SESSION_ID_RE.is_match: ^ses_[0-9A-Za-z]+$
OPENCODE_SESSION_ID_RE(id) ==
    /\ Len(id) > 4
    /\ SubSeq(id, 1, 4) = <<"s", "e", "s", "_">>
    /\ \A i \in 5 .. Len(id) : IsAlphanumeric(id[i])

Separator == <<":", "/", "/">>

IsPrefix(prefix, s) == Len(prefix) <= Len(s) /\ SubSeq(s, 1, Len(prefix)) = prefix

\* positions where "://" occurs in input
SeparatorPositions(input) ==
    {i \in DOMAIN input : IsPrefix(Separator, SubSeq(input, i, Len(input)))}

\* variant: split at the last occurrence
split_once_Last(input) ==
    IF SeparatorPositions(input) = {} THEN [some |-> FALSE, scheme |-> <<>>, target |-> <<>>]
    ELSE LET at == CHOOSE i \in SeparatorPositions(input) :
                        \A j \in SeparatorPositions(input) : i >= j
         IN [some |-> TRUE,
             scheme |-> SubSeq(input, 1, at - 1),
             target |-> SubSeq(input, at + Len(Separator), Len(input))]

\* str::split_once("://"): split at the first occurrence
split_once(input) ==
    IF SeparatorPositions(input) = {} THEN [some |-> FALSE, scheme |-> <<>>, target |-> <<>>]
    ELSE LET at == CHOOSE i \in SeparatorPositions(input) :
                        \A j \in SeparatorPositions(input) : i <= j
         IN [some |-> TRUE,
             scheme |-> SubSeq(input, 1, at - 1),
             target |-> SubSeq(input, at + Len(Separator), Len(input))]

\* Display for ProviderKind
ProviderName(kind) ==
    IF kind = "amp" THEN <<"a", "m", "p">>
    ELSE IF kind = "codex" THEN <<"c", "o", "d", "e", "x">>
    ELSE IF kind = "claude" THEN <<"c", "l", "a", "u", "d", "e">>
    ELSE IF kind = "gemini" THEN <<"g", "e", "m", "i", "n", "i">>
    ELSE <<"o", "p", "e", "n", "c", "o", "d", "e">>

\* match scheme { "amp" => ProviderKind::Amp, ... }: None for any other scheme
ProviderOfScheme(scheme) ==
    IF \E kind \in {"amp", "codex", "claude", "gemini", "opencode"} :
            ProviderName(kind) = scheme
    THEN CHOOSE kind \in {"amp", "codex", "claude", "gemini", "opencode"} :
            ProviderName(kind) = scheme
    ELSE None

ThreadsPrefix == <<"t", "h", "r", "e", "a", "d", "s", "/">>

\* variant: the threads/ segment is not stripped
StripThreads_Keep(target) == target

\* str::strip_prefix("threads/").unwrap_or(target)
StripThreads(target) ==
    IF IsPrefix(ThreadsPrefix, target)
    THEN SubSeq(target, Len(ThreadsPrefix) + 1, Len(target))
    ELSE target

\* Result<ThreadUri>
ThreadUri(kind, session_id) ==
    [ok |-> TRUE, error |-> None, provider |-> kind, session_id |-> session_id,
     detail |-> <<>>]
UriError(error, detail) ==
    [ok |-> FALSE, error |-> error, provider |-> None, session_id |-> <<>>,
     detail |-> detail]

\* the regex of the provider accepts id
MatchesGrammar(kind, id) ==
    IF kind = "amp" THEN AMP_SESSION_ID_RE(id)
    ELSE IF kind = "opencode" THEN OPENCODE_SESSION_ID_RE(id)
    ELSE SESSION_ID_RE(id)

\* variant: the id is kept in the case it was given
NormalizeSessionId_KeepCase(kind, id) ==
    IF kind = "amp" THEN <<"T", "-">> \o SubSeq(id, 3, Len(id))
    ELSE id

\* variant: the Amp prefix keeps the case it was given
NormalizeSessionId_AmpKeepPrefix(kind, id) ==
    IF kind = "opencode" THEN id ELSE [i \in DOMAIN id |-> IF kind = "amp" /\ i <= 2 THEN id[i] ELSE CharToAsciiLowercase(id[i])]

\* let session_id = match provider { ... }
NormalizeSessionId(kind, id) ==
    IF kind = "amp" THEN <<"T", "-">> \o to_ascii_lowercase(SubSeq(id, 3, Len(id)))
    ELSE IF kind = "opencode" THEN id
    ELSE to_ascii_lowercase(id)

\* variant: a rejected Codex id is reported with its threads/ segment
from_str_ReportsTarget(input) ==
    IF ~split_once(input).some THEN UriError("InvalidUri", input)
    ELSE LET scheme == split_once(input).scheme
             target == split_once(input).target
             kind == ProviderOfScheme(scheme)
             id == IF kind = "codex" THEN StripThreads(target) ELSE target
         IN IF kind = None THEN UriError("UnsupportedScheme", scheme)
            ELSE IF ~MatchesGrammar(kind, id) THEN UriError("InvalidSessionId", target)
            ELSE ThreadUri(kind, NormalizeSessionId(kind, id))

\* impl FromStr for ThreadUri
from_str(input) ==
    IF ~split_once(input).some THEN UriError("InvalidUri", input)
    ELSE LET scheme == split_once(input).scheme
             target == split_once(input).target
             kind == ProviderOfScheme(scheme)
             id == IF kind = "codex" THEN StripThreads(target) ELSE target
         IN IF kind = None THEN UriError("UnsupportedScheme", scheme)
            ELSE IF ~MatchesGrammar(kind, id) THEN UriError("InvalidSessionId", id)
            ELSE ThreadUri(kind, NormalizeSessionId(kind, id))

\* ThreadUri::parse
ThreadUri_parse(input) == from_str(input)

\* ThreadUri::as_string: format!("{}://{}", provider, session_id)
as_string(uri) == ProviderName(uri.provider) \o Separator \o uri.session_id

\* ------------------------------------------------------------------------
\* Codex parent rollout: the lines the model draws from
\* ------------------------------------------------------------------------
\* agent ids; AgentOrder is the BTreeMap<String, _> key order
Agents == {"A", "B"}
AgentOrder == <<"A", "B">>

\* the agent id asked for in drill-down mode
QueryAgent == "A"

CallId == "c1"

NoArgs == [id |-> None, ids |-> <<>>]

\* the "status" member of an output: absent, a JSON object with the given
\* keys in iteration order, or any other JSON value
NoStatus == [k |-> "absent"]
StatusObject(keys) == [k |-> "object", keys |-> keys]
StatusScalar == [k |-> "scalar"]

NoOutput == [agent_id |-> None, timed_out |-> FALSE, status |-> NoStatus]

\* {"type":"response_item","payload":{"type":"function_call","call_id":..,
\*  "name":..,"arguments":"{..}"}}
FunctionCall(name, args) ==
    [k |-> "json", type |-> "response_item", ptype |-> "function_call",
     call_id |-> CallId, name |-> name, args |-> args, output |-> NoOutput]

\* {"type":"response_item","payload":{"type":"function_call_output",
\*  "call_id":..,"output":"{..}"}}
FunctionCallOutput(output) ==
    [k |-> "json", type |-> "response_item", ptype |-> "function_call_output",
     call_id |-> CallId, name |-> None, args |-> NoArgs, output |-> output]

\* a record that is valid JSON but not a response_item
OtherRecord ==
    [k |-> "json", type |-> "event_msg", ptype |-> "token_count",
     call_id |-> None, name |-> None, args |-> NoArgs, output |-> NoOutput]

CallLines ==
    { FunctionCall("spawn_agent", NoArgs),
      FunctionCall("wait", [id |-> None, ids |-> <<"A", "B">>]),
      FunctionCall("resume_agent", [id |-> "B", ids |-> <<>>]),
      FunctionCall("close_agent", [id |-> "A", ids |-> <<>>]) }

OutputLines ==
    { FunctionCallOutput([NoOutput EXCEPT !.agent_id = "A"]),
      FunctionCallOutput(NoOutput),
      FunctionCallOutput([NoOutput EXCEPT !.timed_out = TRUE]),
      FunctionCallOutput([NoOutput EXCEPT !.status = StatusObject(<<"errored">>)]),
      FunctionCallOutput([NoOutput EXCEPT !.status = StatusObject(<<"exit_code", "completed">>)]) }

ParentLines == CallLines \cup OutputLines \cup {GarbageLine}

\* ------------------------------------------------------------------------
\* Codex child rollout: the lines the model draws from
\* ------------------------------------------------------------------------
ChildLines ==
    { CodexRecord("response_item", "message", "assistant",
                  ArrayContent(<<TextItem("output_text", <<"d">>)>>), <<>>),
      CodexRecord("response_item", "message", "user",
                  StringContent(<<"q">>), <<>>),
      CodexRecord("event_msg", "turn_aborted", None, NoContent, <<>>) }

\* a file on disk: absent, or its lines (no line at all: zero bytes)
NoFile == [exists |-> FALSE, lines |-> <<>>]

\* ------------------------------------------------------------------------
\* read_thread_raw (service.rs:82-97)
\* ------------------------------------------------------------------------
\* A file is its lines; a file of zero bytes has no line, and a line of
\* bytes that are no UTF-8 text makes the whole file invalid UTF-8.
NonUtf8Line == [k |-> "bytes"]

\* bytes.is_empty()
IsEmptyFile(file) == file.lines = <<>>

\* String::from_utf8(bytes).is_ok()
IsUtf8(file) == \A i \in DOMAIN file.lines : file.lines[i].k # "bytes"

ReadError(error) == [ok |-> FALSE, error |-> error, raw |-> <<>>]

\* variant: the bytes are decoded without the emptiness check
read_thread_raw_NoEmptyCheck(file) ==
    IF ~file.exists THEN ReadError("Io")
    ELSE IF ~IsUtf8(file) THEN ReadError("NonUtf8ThreadFile")
    ELSE [ok |-> TRUE, error |-> None, raw |-> file.lines]

read_thread_raw(file) ==
    IF ~file.exists THEN ReadError("Io")
    ELSE IF IsEmptyFile(file) THEN ReadError("EmptyThreadFile")
    ELSE IF ~IsUtf8(file) THEN ReadError("NonUtf8ThreadFile")
    ELSE [ok |-> TRUE, error |-> None, raw |-> file.lines]

\* ------------------------------------------------------------------------
\* IncrementalReader (incremental.rs)
\* ------------------------------------------------------------------------
\* A file is its bytes: digits, letters, the newline, and a byte that is no
\* UTF-8 text.
Newline == "\n"
InvalidByte == "B"

\* the end of the line that starts after offset: its newline, or the end of
\* the file
LineEnd(bytes, offset) ==
    IF \E i \in (offset + 1) .. Len(bytes) : bytes[i] = Newline
    THEN CHOOSE i \in (offset + 1) .. Len(bytes) :
            /\ bytes[i] = Newline
            /\ \A j \in (offset + 1) .. (i - 1) : bytes[j] # Newline
    ELSE Len(bytes)

\* reader.read_line(&mut line): Ok(n) with the bytes up to and including the
\* next newline, Ok(0) at the end of the file, Err for bytes that are no
\* UTF-8 text
read_line(bytes, offset) ==
    LET line == SubSeq(bytes, offset + 1, LineEnd(bytes, offset))
    IN [ok |-> \A i \in DOMAIN line : line[i] # InvalidByte,
        n |-> Len(line),
        line |-> line]

\* serde_json::from_str::<Value>(text).is_ok(), for the texts of the model:
\* a number without sign, fraction or leading zero
IsJsonText(text) ==
    /\ text # <<>>
    /\ \A i \in DOMAIN text : text[i] \in Digits
    /\ Len(text) > 1 => text[1] # "0"

\* the loop of read_new_lines: Ok(0) and Err end it, Ok(n) moves the offset
\* by n, and the trimmed line is pushed if it is not empty and parses
RECURSIVE ReadLoop(_, _, _)
ReadLoop(bytes, offset, values) ==
    IF read_line(bytes, offset).n = 0 THEN [offset |-> offset, values |-> values]
    ELSE IF ~read_line(bytes, offset).ok THEN [offset |-> offset, values |-> values]
    ELSE IF Trim(read_line(bytes, offset).line) = <<>>
    THEN ReadLoop(bytes, offset + read_line(bytes, offset).n, values)
    ELSE IF IsJsonText(Trim(read_line(bytes, offset).line))
    THEN ReadLoop(bytes, offset + read_line(bytes, offset).n,
                  Append(values, Trim(read_line(bytes, offset).line)))
    ELSE ReadLoop(bytes, offset + read_line(bytes, offset).n, values)

\* read_new_lines: nothing when the file is no longer than the offset
read_new_lines(offset, bytes) ==
    IF Len(bytes) <= offset THEN [offset |-> offset, values |-> <<>>]
    ELSE ReadLoop(bytes, offset, <<>>)

\* has_new_data: m.len() > self.offset
has_new_data(offset, bytes) == Len(bytes) > offset

\* IncrementalReader::new: offset 0; with it, what the calls made so far
\* have returned: the values of the last call, the values of all calls, the
\* length of the file at the last call, and whether some call met a file
\* that ended in the middle of a line
NewReader ==
    [offset |-> 0, called |-> FALSE, values |-> <<>>, delivered |-> <<>>,
     seen |-> 0, torn |-> FALSE]

\* the reader is not in use
InitNoReader ==
    /\ readerFile = <<>>
    /\ reader = NewReader

\* modification times are instants in ticks; TicksPerSecond ticks make one
\* second of the epoch clock
TicksPerSecond == 2
Ticks == 0 .. TicksPerSecond

\* ------------------------------------------------------------------------
\* ProviderRoots::list_active_sessions (provider/mod.rs:98-189)
\* ------------------------------------------------------------------------
\* the providers in the order their roots are scanned
ScanProviders == <<"claude", "codex", "amp", "gemini", "pi", "opencode">>

\* let is_active = age_secs < 60
ACTIVE_SECS == 60

\* if file_len < 10 { continue }
MIN_FILE_LEN == 10

\* a file under a scan root: its place in the walk, the provider whose root
\* holds it, its stem and extension, its length in bytes and the instant of
\* its last modification, in ticks
SessionFile(root, stem, ext, len, mtime) ==
    [root |-> root, stem |-> stem, ext |-> ext, len |-> len, mtime |-> mtime]

\* mtime.and_then(|mt| now.duration_since(mt).ok()): no age for an instant
\* later than now
HasAge(file, now) == file.mtime <= now
Age(file, now) == now - file.mtime

\* the filters of the walk: extension, age against max_age, length
Scanned(file, now, max_age) ==
    /\ file.ext \in {"jsonl", "json"}
    /\ ~(HasAge(file, now) /\ Age(file, now) > max_age)
    /\ ~(file.len < MIN_FILE_LEN)

\* sessions.push(ActiveSession { .. }): Duration::as_secs drops the part of
\* a second
ActiveSession(file, path, now) ==
    [provider |-> file.root, session_id |-> file.stem, path |-> path,
     mtime_epoch |-> file.mtime \div TicksPerSecond,
     is_active |-> HasAge(file, now)
                   /\ (Age(file, now) \div TicksPerSecond) < ACTIVE_SECS]

\* the walk of one provider's scan root
RECURSIVE ScanRoot(_, _, _, _, _)
ScanRoot(kind, files, path, now, max_age) ==
    IF path > Len(files) THEN <<>>
    ELSE (IF files[path].root = kind /\ Scanned(files[path], now, max_age)
          THEN <<ActiveSession(files[path], path, now)>> ELSE <<>>)
         \o ScanRoot(kind, files, path + 1, now, max_age)

\* for &(provider, root, subdir) in providers
RECURSIVE ScanRoots(_, _, _, _)
ScanRoots(p, files, now, max_age) ==
    IF p > Len(ScanProviders) THEN <<>>
    ELSE ScanRoot(ScanProviders[p], files, 1, now, max_age)
         \o ScanRoots(p + 1, files, now, max_age)

SameSession(a, b) == a.provider = b.provider /\ a.session_id = b.session_id

\* best.get(&key): the index in deduped of the entry with the same key
BestIndex(deduped, session) ==
    IF \E i \in DOMAIN deduped : SameSession(deduped[i], session)
    THEN CHOOSE i \in DOMAIN deduped : SameSession(deduped[i], session)
    ELSE 0

\* for session in sessions: replace the kept entry only if the new
\* mtime_epoch is greater, else push a new key
RECURSIVE Deduplicate(_, _, _)
Deduplicate(scanned, i, deduped) ==
    IF i > Len(scanned) THEN deduped
    ELSE IF BestIndex(deduped, scanned[i]) # 0
    THEN (IF scanned[i].mtime_epoch > deduped[BestIndex(deduped, scanned[i])].mtime_epoch
          THEN Deduplicate(scanned, i + 1,
                   [deduped EXCEPT ![BestIndex(deduped, scanned[i])] = scanned[i]])
          ELSE Deduplicate(scanned, i + 1, deduped))
    ELSE Deduplicate(scanned, i + 1, Append(deduped, scanned[i]))

\* variant: the comparator looks at the modification time only
SessionLess_RecencyOnly(a, b) == b.mtime_epoch < a.mtime_epoch

\* the comparator of sort_by yields Less: b.is_active.cmp(&a.is_active)
\* .then(b.mtime_epoch.cmp(&a.mtime_epoch))
SessionLess(a, b) ==
    \/ ~b.is_active /\ a.is_active
    \/ b.is_active = a.is_active /\ b.mtime_epoch < a.mtime_epoch

\* the place of one more entry in a sorted list: before the first entry it
\* is less than (sort_by is stable)
InsertSorted(sorted, entry) ==
    LET before == {i \in DOMAIN sorted : SessionLess(entry, sorted[i])}
        at == IF before = {} THEN Len(sorted) + 1
              ELSE CHOOSE i \in before : \A j \in before : i <= j
    IN SubSeq(sorted, 1, at - 1) \o <<entry>> \o SubSeq(sorted, at, Len(sorted))

\* deduped.sort_by(..)
RECURSIVE SortSessions(_, _, _)
SortSessions(deduped, i, sorted) ==
    IF i > Len(deduped) THEN sorted
    ELSE SortSessions(deduped, i + 1, InsertSorted(sorted, deduped[i]))

list_active_sessions(files, now, max_age) ==
    SortSessions(Deduplicate(ScanRoots(1, files, now, max_age), 1, <<>>), 1, <<>>)

\* no list_active_sessions call has been made
NotListed == [listed |-> FALSE, now |-> 0, max_age |-> 0, entries |-> <<>>]

\* the session listing is not in use
InitNoSessions ==
    /\ sessionFiles = <<>>
    /\ sessions = NotListed
    /\ InitNoReader

\* ------------------------------------------------------------------------
\* The turl command (turl-core service.rs, turl-cli main.rs)
\* ------------------------------------------------------------------------
\* ResolutionMeta: the number of files considered and the warnings
ResolutionMeta(candidate_count) ==
    [candidate_count |-> candidate_count, warnings |-> <<>>]

\* Provider::resolve: the files under the provider's root that match the
\* session id; none gives ThreadNotFound with no candidate
resolve(kind, file) ==
    IF file.exists /\ file.root = kind
    THEN [ok |-> TRUE, error |-> None, path |-> ThreadPath,
          metadata |-> ResolutionMeta(1)]
    ELSE [ok |-> FALSE, error |-> "ThreadNotFound", path |-> None,
          metadata |-> ResolutionMeta(0)]

\* resolve_thread: the provider of the URI resolves under its own root
resolve_thread(uri, file) == resolve(uri.provider, file)

\* render_thread_markdown: read_thread_raw(&resolved.path)?, then
\* render::render_markdown
render_thread_markdown(uri, file) ==
    IF ~read_thread_raw(file).ok
    THEN [ok |-> FALSE, error |-> read_thread_raw(file).error, markdown |-> <<>>]
    ELSE IF ~extract_timeline_entries(uri.provider, read_thread_raw(file).raw).ok
    THEN [ok |-> FALSE,
          error |-> extract_timeline_entries(uri.provider, read_thread_raw(file).raw).error,
          markdown |-> <<>>]
    ELSE [ok |-> TRUE, error |-> None,
          markdown |-> render_markdown(uri.provider, read_thread_raw(file).raw)]

\* what a run leaves behind: its result, what it printed, and how many
\* times it resolved and how many files the resolution considered
NoStdout == [k |-> "none", content |-> <<>>]
RunOk(k, content) ==
    [ok |-> TRUE, error |-> None, stdout |-> [k |-> k, content |-> content],
     resolve_calls |-> 1, candidate_count |-> 1]
RunErr(error, resolve_calls) ==
    [ok |-> FALSE, error |-> error, stdout |-> NoStdout,
     resolve_calls |-> resolve_calls, candidate_count |-> 0]

\* variant: a failed resolution is tried once more and the run goes on
run_RetryAndRender(input, raw, file) ==
    IF ~ThreadUri_parse(input).ok THEN RunErr(ThreadUri_parse(input).error, 0)
    ELSE IF ~resolve_thread(ThreadUri_parse(input), file).ok
    THEN [RunOk("markdown", <<>>) EXCEPT !.resolve_calls = 2, !.candidate_count = 0]
    ELSE IF raw
    THEN (IF ~read_thread_raw(file).ok THEN RunErr(read_thread_raw(file).error, 1)
          ELSE RunOk("raw", read_thread_raw(file).raw))
    ELSE (IF ~render_thread_markdown(ThreadUri_parse(input), file).ok
          THEN RunErr(render_thread_markdown(ThreadUri_parse(input), file).error, 1)
          ELSE RunOk("markdown", render_thread_markdown(ThreadUri_parse(input), file).markdown))

\* run: every ? returns the error at once; nothing is printed before the
\* thread has been resolved and read
run(input, raw, file) ==
    IF ~ThreadUri_parse(input).ok THEN RunErr(ThreadUri_parse(input).error, 0)
    ELSE IF ~resolve_thread(ThreadUri_parse(input), file).ok
    THEN RunErr(resolve_thread(ThreadUri_parse(input), file).error, 1)
    ELSE IF raw
    THEN (IF ~read_thread_raw(file).ok THEN RunErr(read_thread_raw(file).error, 1)
          ELSE RunOk("raw", read_thread_raw(file).raw))
    ELSE (IF ~render_thread_markdown(ThreadUri_parse(input), file).ok
          THEN RunErr(render_thread_markdown(ThreadUri_parse(input), file).error, 1)
          ELSE RunOk("markdown", render_thread_markdown(ThreadUri_parse(input), file).markdown))

\* Display of the error: the texts the specification and the tests give
ErrorMessage(error) ==
    IF error = "ThreadNotFound" THEN "thread not found"
    ELSE IF error = "EmptyThreadFile" THEN "thread file is empty"
    ELSE IF error = "NonUtf8ThreadFile" THEN "non-UTF-8 thread file"
    ELSE "other"

\* main: Ok(()) is ExitCode::SUCCESS; an error is printed to stderr as
\* "error: {err}" and the exit code is 1
main(input, raw, file) ==
    [ran |-> TRUE, raw |-> raw,
     code |-> IF run(input, raw, file).ok THEN 0 ELSE 1,
     stderr |-> IF run(input, raw, file).ok THEN <<>>
                ELSE <<"error: ", ErrorMessage(run(input, raw, file).error)>>,
     run |-> run(input, raw, file)]

\* the command has not been run
NotRun ==
    [ran |-> FALSE, raw |-> FALSE, code |-> 0, stderr |-> <<>>,
     run |-> RunErr("NotRun", 0)]

\* no thread file under any provider's root
NoThreadFile(root) == [root |-> root, exists |-> FALSE, lines |-> <<>>]

\* the turl command is not in use
InitNoCli ==
    /\ threadFile = NoThreadFile(None)
    /\ cli = NotRun
    /\ InitNoSessions

\* ------------------------------------------------------------------------
\* Codex parent replay (service.rs:912-1125)
\* ------------------------------------------------------------------------
DefaultTimeline ==
    [events |-> <<>>, states |-> <<>>, has_spawn |-> FALSE, has_activity |-> FALSE]

\* timelines.entry(agent_id).or_default()
TimelineEntry(timelines, agent_id) ==
    IF agent_id \in DOMAIN timelines THEN timelines[agent_id] ELSE DefaultTimeline

PutTimeline(timelines, agent_id, timeline) ==
    [a \in (DOMAIN timelines) \cup {agent_id} |->
        IF a = agent_id THEN timeline ELSE timelines[a]]

LifecycleEvent(event, detail) == [event |-> event, detail |-> detail]

KnownStatusKeys ==
    {STATUS_PENDING_INIT, STATUS_RUNNING, STATUS_COMPLETED,
     STATUS_ERRORED, STATUS_SHUTDOWN, STATUS_NOT_FOUND}

RECURSIVE FirstKnownKey(_)
FirstKnownKey(keys) ==
    IF keys = <<>> THEN None
    ELSE IF Head(keys) \in KnownStatusKeys THEN Head(keys)
    ELSE FirstKnownKey(Tail(keys))

infer_state_from_status_payload(payload) ==
    IF payload.status.k # "object" THEN None
    ELSE IF FirstKnownKey(payload.status.keys) # None
    THEN FirstKnownKey(payload.status.keys)
    ELSE IF AnyEq(payload.status.keys, "completed") THEN STATUS_COMPLETED
    ELSE None

\* the "spawn_agent" arm
InterpretSpawn(st, output) ==
    IF output.agent_id = None
    THEN [st EXCEPT !.warnings = Append(@, [w |-> "spawn_without_agent_id", line |-> 0])]
    ELSE LET timeline == TimelineEntry(st.timelines, output.agent_id)
         IN [st EXCEPT !.timelines = PutTimeline(@, output.agent_id,
                [timeline EXCEPT !.has_spawn = TRUE,
                                 !.has_activity = TRUE,
                                 !.events = Append(@, LifecycleEvent("spawn_agent", <<"subagent spawned">>))])]

\* the "wait" arm overwriting the states recorded so far
WaitTimeline_ReplaceStates(timeline, output) ==
    LET state == infer_state_from_status_payload(output)
        states == IF state # None THEN <<state>>
                  ELSE IF output.timed_out THEN <<STATUS_RUNNING>>
                  ELSE timeline.states
        detail == IF state # None THEN <<"wait state=", state>>
                  ELSE IF output.timed_out THEN <<"wait timed out">>
                  ELSE <<"wait returned">>
    IN [timeline EXCEPT !.has_activity = TRUE,
                        !.states = states,
                        !.events = Append(@, LifecycleEvent("wait", detail))]

\* the body of the loop over ids in the "wait" arm
WaitTimeline(timeline, output) ==
    LET state == infer_state_from_status_payload(output)
        states == IF state # None THEN Append(timeline.states, state)
                  ELSE IF output.timed_out THEN Append(timeline.states, STATUS_RUNNING)
                  ELSE timeline.states
        detail == IF state # None THEN <<"wait state=", state>>
                  ELSE IF output.timed_out THEN <<"wait timed out">>
                  ELSE <<"wait returned">>
    IN [timeline EXCEPT !.has_activity = TRUE,
                        !.states = states,
                        !.events = Append(@, LifecycleEvent("wait", detail))]

RECURSIVE InterpretWait(_, _, _)
InterpretWait(timelines, ids, output) ==
    IF ids = <<>> THEN timelines
    ELSE InterpretWait(
            PutTimeline(timelines, Head(ids),
                        WaitTimeline(TimelineEntry(timelines, Head(ids)), output)),
            Tail(ids), output)

\* InterpretTargeted without the shutdown default of close_agent
InterpretTargeted_NoShutdownDefault(st, name, args, output) ==
    IF args.id = None THEN st
    ELSE LET timeline == TimelineEntry(st.timelines, args.id)
             state == infer_state_from_status_payload(output)
             states == IF name # "close_agent" THEN timeline.states
                       ELSE IF state # None THEN Append(timeline.states, state)
                       ELSE timeline.states
         IN [st EXCEPT !.timelines = PutTimeline(@, args.id,
                [timeline EXCEPT !.has_activity = TRUE,
                                 !.states = states,
                                 !.events = Append(@, LifecycleEvent(name, <<"agent lifecycle event">>))])]

\* the "send_input" | "resume_agent" | "close_agent" arm
InterpretTargeted(st, name, args, output) ==
    IF args.id = None THEN st
    ELSE LET timeline == TimelineEntry(st.timelines, args.id)
             state == infer_state_from_status_payload(output)
             states == IF name # "close_agent" THEN timeline.states
                       ELSE IF state # None THEN Append(timeline.states, state)
                       ELSE Append(timeline.states, STATUS_SHUTDOWN)
         IN [st EXCEPT !.timelines = PutTimeline(@, args.id,
                [timeline EXCEPT !.has_activity = TRUE,
                                 !.states = states,
                                 !.events = Append(@, LifecycleEvent(name, <<"agent lifecycle event">>))])]

\* match name.as_str()
InterpretOutput(st, name, args, output) ==
    IF name = "spawn_agent" THEN InterpretSpawn(st, output)
    ELSE IF name = "wait"
    THEN [st EXCEPT !.timelines = InterpretWait(@, args.ids, output)]
    ELSE IF name \in {"send_input", "resume_agent", "close_agent"}
    THEN InterpretTargeted(st, name, args, output)
    ELSE st

RemoveCall(calls, call_id) == [c \in (DOMAIN calls) \ {call_id} |-> calls[c]]

InsertCall(calls, call_id, call) ==
    [c \in (DOMAIN calls) \cup {call_id} |-> IF c = call_id THEN call ELSE calls[c]]

\* the loop body reading the call with calls.get instead of calls.remove
LifecycleLine_KeepCall(st, line, line_no) ==
    IF line.k = "blank" THEN st
    ELSE IF line.k = "garbage"
    THEN [st EXCEPT !.warnings = Append(@, [w |-> "parse_failure", line |-> line_no])]
    ELSE IF line.type # "response_item" THEN st
    ELSE IF line.ptype = None THEN st
    ELSE IF line.ptype = "function_call"
    THEN IF line.call_id = None \/ line.name = None THEN st
         ELSE [st EXCEPT !.calls = InsertCall(@, line.call_id,
                                              [name |-> line.name, args |-> line.args])]
    ELSE IF line.ptype # "function_call_output" THEN st
    ELSE IF line.call_id = None THEN st
    ELSE IF line.call_id \notin DOMAIN st.calls THEN st
    ELSE InterpretOutput(st,
                         st.calls[line.call_id].name,
                         st.calls[line.call_id].args,
                         line.output)

\* one iteration of the loop over raw.lines().enumerate()
LifecycleLine(st, line, line_no) ==
    IF line.k = "blank" THEN st
    ELSE IF line.k = "garbage"
    THEN [st EXCEPT !.warnings = Append(@, [w |-> "parse_failure", line |-> line_no])]
    ELSE IF line.type # "response_item" THEN st
    ELSE IF line.ptype = None THEN st
    ELSE IF line.ptype = "function_call"
    THEN IF line.call_id = None \/ line.name = None THEN st
         ELSE [st EXCEPT !.calls = InsertCall(@, line.call_id,
                                              [name |-> line.name, args |-> line.args])]
    ELSE IF line.ptype # "function_call_output" THEN st
    ELSE IF line.call_id = None THEN st
    ELSE IF line.call_id \notin DOMAIN st.calls THEN st
    ELSE InterpretOutput([st EXCEPT !.calls = RemoveCall(@, line.call_id)],
                         st.calls[line.call_id].name,
                         st.calls[line.call_id].args,
                         line.output)

EmptyMap == [x \in {} |-> None]

ReplayStart == [calls |-> EmptyMap, timelines |-> EmptyMap, warnings |-> <<>>]

RECURSIVE ReplayFrom(_, _, _)
ReplayFrom(st, raw, line_no) ==
    IF line_no > Len(raw) THEN st
    ELSE ReplayFrom(LifecycleLine(st, raw[line_no], line_no), raw, line_no + 1)

\* result: [timelines, warnings]
parse_codex_parent_lifecycle(raw) == ReplayFrom(ReplayStart, raw, 1)

\* ------------------------------------------------------------------------
\* Status inference (service.rs:1127-1172)
\* ------------------------------------------------------------------------
StatusPair(status, source) == [status |-> status, status_source |-> source]

\* infer_status_from_timeline taking the state recorded last
infer_status_from_timeline_LastState(timeline, child_exists) ==
    IF timeline.states # <<>>
       /\ timeline.states[Len(timeline.states)]
            \in {STATUS_ERRORED, STATUS_SHUTDOWN, STATUS_COMPLETED}
    THEN StatusPair(timeline.states[Len(timeline.states)], "parent_rollout")
    ELSE IF AnyEq(timeline.states, STATUS_RUNNING) \/ timeline.has_activity
    THEN StatusPair(STATUS_RUNNING, "parent_rollout")
    ELSE IF timeline.has_spawn
    THEN StatusPair(STATUS_PENDING_INIT, "parent_rollout")
    ELSE IF child_exists
    THEN StatusPair(STATUS_RUNNING, "child_rollout")
    ELSE StatusPair(STATUS_NOT_FOUND, "inferred")

\* infer_status_from_timeline ignoring has_activity
infer_status_from_timeline_NoActivity(timeline, child_exists) ==
    IF AnyEq(timeline.states, STATUS_ERRORED)
    THEN StatusPair(STATUS_ERRORED, "parent_rollout")
    ELSE IF AnyEq(timeline.states, STATUS_SHUTDOWN)
    THEN StatusPair(STATUS_SHUTDOWN, "parent_rollout")
    ELSE IF AnyEq(timeline.states, STATUS_COMPLETED)
    THEN StatusPair(STATUS_COMPLETED, "parent_rollout")
    ELSE IF AnyEq(timeline.states, STATUS_RUNNING)
    THEN StatusPair(STATUS_RUNNING, "parent_rollout")
    ELSE IF child_exists
    THEN StatusPair(STATUS_RUNNING, "child_rollout")
    ELSE StatusPair(STATUS_NOT_FOUND, "inferred")

infer_status_from_timeline(timeline, child_exists) ==
    IF AnyEq(timeline.states, STATUS_ERRORED)
    THEN StatusPair(STATUS_ERRORED, "parent_rollout")
    ELSE IF AnyEq(timeline.states, STATUS_SHUTDOWN)
    THEN StatusPair(STATUS_SHUTDOWN, "parent_rollout")
    ELSE IF AnyEq(timeline.states, STATUS_COMPLETED)
    THEN StatusPair(STATUS_COMPLETED, "parent_rollout")
    ELSE IF AnyEq(timeline.states, STATUS_RUNNING) \/ timeline.has_activity
    THEN StatusPair(STATUS_RUNNING, "parent_rollout")
    ELSE IF timeline.has_spawn
    THEN StatusPair(STATUS_PENDING_INIT, "parent_rollout")
    ELSE IF child_exists
    THEN StatusPair(STATUS_RUNNING, "child_rollout")
    ELSE StatusPair(STATUS_NOT_FOUND, "inferred")

\* child_status: None or a status token
infer_status_for_detail(timeline, child_status, child_exists) ==
    IF infer_status_from_timeline(timeline, child_exists).status = STATUS_NOT_FOUND
       /\ child_status # None
    THEN StatusPair(child_status, "child_rollout")
    ELSE infer_status_from_timeline(timeline, child_exists)

\* ------------------------------------------------------------------------
\* Codex child thread (service.rs:813-909)
\* ------------------------------------------------------------------------
\* CodexProvider::resolve(agent_id).ok()? followed by read_thread_raw(..).ok()?
resolve_codex_child_resolved(file) == read_thread_raw(file).ok

resolve_codex_child_thread(file) == read_thread_raw(file).ok

ChildLineAborted(line) ==
    line.k = "json" /\ line.type = "event_msg" /\ line.ptype = "turn_aborted"

ChildLineAssistant(line) ==
    line.k = "json" /\ extract_codex_message(line).k = "msg"
                    /\ extract_codex_message(line).role = "Assistant"

infer_codex_child_status(raw) ==
    IF \E i \in DOMAIN raw : ChildLineAborted(raw[i]) THEN STATUS_ERRORED
    ELSE IF \E i \in DOMAIN raw : ChildLineAssistant(raw[i]) THEN STATUS_COMPLETED
    ELSE None

\* ------------------------------------------------------------------------
\* Codex views (service.rs:656-811)
\* ------------------------------------------------------------------------
NoView == [mode |-> "none"]

\* list_subagents has not been called since the files last changed
NoInfos == [called |-> FALSE, list |-> <<>>]
ErrorView(error) == [mode |-> "error", error |-> error]

ListItem(agent_id, timeline, child_exists) ==
    [agent_id |-> agent_id,
     status |-> infer_status_from_timeline(timeline, child_exists).status,
     status_source |-> infer_status_from_timeline(timeline, child_exists).status_source,
     child_thread |-> child_exists]

RECURSIVE ListItems(_, _, _)
ListItems(order, timelines, children) ==
    IF order = <<>> THEN <<>>
    ELSE IF Head(order) \in DOMAIN timelines
    THEN <<ListItem(Head(order), timelines[Head(order)],
                    resolve_codex_child_thread(children[Head(order)]))>>
         \o ListItems(Tail(order), timelines, children)
    ELSE ListItems(Tail(order), timelines, children)

build_codex_list_view(timelines, warnings, children) ==
    [mode |-> "list",
     agents |-> ListItems(AgentOrder, timelines, children),
     warnings |-> warnings]

build_codex_detail_view(agent_id, timelines, warnings, children) ==
    LET timeline == TimelineEntry(timelines, agent_id)
        child_exists == resolve_codex_child_resolved(children[agent_id])
        child_status == IF child_exists
                        THEN infer_codex_child_status(children[agent_id].lines)
                        ELSE None
        inferred == infer_status_for_detail(timeline, child_status, child_exists)
    IN [mode |-> "detail",
        agent_id |-> agent_id,
        lifecycle |-> timeline.events,
        status |-> inferred.status,
        status_source |-> inferred.status_source,
        child_thread |-> child_exists,
        warnings |-> warnings]

\* variant: the warnings of the call before are kept and added to
resolve_codex_subagent_view_KeepsWarnings(list, agent_id, parent, children) ==
    IF ~read_thread_raw(parent).ok THEN ErrorView(read_thread_raw(parent).error)
    ELSE LET replay == parse_codex_parent_lifecycle(read_thread_raw(parent).raw)
             kept == IF view.mode \in {"list", "detail"} THEN view.warnings ELSE <<>>
         IN IF list
            THEN build_codex_list_view(replay.timelines, kept \o replay.warnings, children)
            ELSE build_codex_detail_view(agent_id, replay.timelines,
                                         kept \o replay.warnings, children)

\* resolve_codex_subagent_view (service.rs:656-684)
\* list: the mode flag; agent_id: None or the agent id of the uri
resolve_codex_subagent_view(list, agent_id, parent, children) ==
    IF ~read_thread_raw(parent).ok THEN ErrorView(read_thread_raw(parent).error)
    ELSE LET replay == parse_codex_parent_lifecycle(read_thread_raw(parent).raw)
         IN IF list
            THEN build_codex_list_view(replay.timelines, replay.warnings, children)
            ELSE build_codex_detail_view(agent_id, replay.timelines, replay.warnings, children)

\* ------------------------------------------------------------------------
\* Claude sidechain discovery (service.rs:1189-1504)
\* ------------------------------------------------------------------------
MainSessionId == "main"

\* candidate paths (files named agent-*.jsonl under <main>/subagents/ and
\* under the project directory); PathOrder is the BTreeSet<PathBuf> order
Paths == {"p1", "p2"}
PathOrder == <<"p1", "p2">>

\* one decoded record of a Claude transcript
ClaudeRecord(agentId, isSidechain, sessionId, isApiErrorMessage, error, type) ==
    [k |-> "json", agentId |-> agentId, isSidechain |-> isSidechain,
     sessionId |-> sessionId, isApiErrorMessage |-> isApiErrorMessage,
     error |-> error, type |-> type]

\* isSidechain: "true", "false" or None (absent); error: None (absent),
\* "null" or "set"
ClaudeLines ==
    { ClaudeRecord("a1", "true", MainSessionId, FALSE, None, None),
      ClaudeRecord("a1", "false", MainSessionId, FALSE, None, "user"),
      ClaudeRecord("a1", "true", "other", FALSE, None, "user"),
      ClaudeRecord("a2", "true", MainSessionId, FALSE, "null", "user"),
      ClaudeRecord(None, None, None, FALSE, None, "assistant"),
      ClaudeRecord(None, None, None, FALSE, None, "user"),
      ClaudeRecord(None, None, None, TRUE, None, "assistant"),
      ClaudeRecord(None, None, None, FALSE, "set", None),
      GarbageLine }

NoClaudeFile == [exists |-> FALSE, lines |-> <<>>, mtime |-> 0]

\* file_modified_epoch: whole seconds since the epoch
file_modified_epoch(file) == file.mtime \div TicksPerSecond

normalize_agent_id(agent_id) ==
    IF agent_id = "agent-a1" THEN "a1"
    ELSE IF agent_id = "agent-a2" THEN "a2"
    ELSE agent_id

LineIsJson(line) == line.k = "json"

LineHasError(line) ==
    LineIsJson(line) /\ (line.isApiErrorMessage \/ line.error = "set")

LineHasType(line, kind) == LineIsJson(line) /\ line.type = kind

\* None when the file yields no record, else the ClaudeAgentRecord
NoRecord == [k |-> "none"]

\* analyze_claude_agent_file reading the sidechain header from any line
analyze_claude_agent_file_AnyLine(path, file, main_session_id) ==
    IF ~read_thread_raw(file).ok THEN NoRecord
    ELSE LET raw == read_thread_raw(file).raw
             headers == {i \in DOMAIN raw :
                            LineIsJson(raw[i]) /\ raw[i].isSidechain = "true"
                            /\ raw[i].sessionId = main_session_id
                            /\ raw[i].agentId # None}
             has_error == \E i \in DOMAIN raw : LineHasError(raw[i])
             has_assistant == \E i \in DOMAIN raw : LineHasType(raw[i], "assistant")
             has_user == \E i \in DOMAIN raw : LineHasType(raw[i], "user")
         IN IF headers = {} THEN NoRecord
            ELSE [k |-> "record",
                  agent_id |-> raw[CHOOSE i \in headers : \A j \in headers : i <= j].agentId,
                  path |-> path,
                  status |-> IF has_error THEN STATUS_ERRORED
                             ELSE IF has_assistant THEN STATUS_COMPLETED
                             ELSE IF has_user THEN STATUS_RUNNING
                             ELSE STATUS_PENDING_INIT]

\* analyze_claude_agent_file deriving the status from the last typed record
analyze_claude_agent_file_LastRecord(path, file, main_session_id) ==
    IF ~read_thread_raw(file).ok THEN NoRecord
    ELSE LET raw == read_thread_raw(file).raw
             first_ok == LineIsJson(raw[1])
             agent_id == IF first_ok THEN raw[1].agentId ELSE None
             is_sidechain == first_ok /\ raw[1].isSidechain = "true"
             session_matches == first_ok /\ raw[1].sessionId = main_session_id
             has_error == \E i \in DOMAIN raw : LineHasError(raw[i])
             typed == {i \in DOMAIN raw : LineHasType(raw[i], "assistant")
                                          \/ LineHasType(raw[i], "user")}
             last == CHOOSE i \in typed : \A j \in typed : j <= i
         IN IF ~is_sidechain \/ ~session_matches THEN NoRecord
            ELSE IF agent_id = None THEN NoRecord
            ELSE [k |-> "record",
                  agent_id |-> agent_id,
                  path |-> path,
                  status |-> IF has_error THEN STATUS_ERRORED
                             ELSE IF typed = {} THEN STATUS_PENDING_INIT
                             ELSE IF raw[last].type = "assistant" THEN STATUS_COMPLETED
                             ELSE STATUS_RUNNING]

analyze_claude_agent_file(path, file, main_session_id) ==
    IF ~read_thread_raw(file).ok THEN NoRecord
    ELSE LET raw == read_thread_raw(file).raw
             first_ok == LineIsJson(raw[1])
             agent_id == IF first_ok THEN raw[1].agentId ELSE None
             is_sidechain == first_ok /\ raw[1].isSidechain = "true"
             session_matches == first_ok /\ raw[1].sessionId = main_session_id
             has_error == \E i \in DOMAIN raw : LineHasError(raw[i])
             has_assistant == \E i \in DOMAIN raw : LineHasType(raw[i], "assistant")
             has_user == \E i \in DOMAIN raw : LineHasType(raw[i], "user")
         IN IF ~is_sidechain \/ ~session_matches THEN NoRecord
            ELSE IF agent_id = None THEN NoRecord
            ELSE [k |-> "record",
                  agent_id |-> agent_id,
                  path |-> path,
                  status |-> IF has_error THEN STATUS_ERRORED
                             ELSE IF has_assistant THEN STATUS_COMPLETED
                             ELSE IF has_user THEN STATUS_RUNNING
                             ELSE STATUS_PENDING_INIT]

\* AnalyzeWarnings naming line_idx instead of line_idx + 1
AnalyzeWarnings_ZeroBased(path, file, main_session_id) ==
    IF ~read_thread_raw(file).ok THEN <<[w |-> "read_failure", path |-> path, line |-> 0]>>
    ELSE LET raw == read_thread_raw(file).raw
             parse == [i \in DOMAIN raw |-> [w |-> "parse_failure", path |-> path, line |-> i - 1]]
             failures == SelectSeq(parse, LAMBDA x : raw[x.line + 1].k = "garbage")
         IN IF LineIsJson(raw[1]) /\ raw[1].isSidechain = "true"
               /\ raw[1].sessionId = main_session_id /\ raw[1].agentId = None
            THEN Append(failures, [w |-> "missing_agent_id", path |-> path, line |-> 0])
            ELSE failures

\* warnings pushed while analysing one file
AnalyzeWarnings(path, file, main_session_id) ==
    IF ~read_thread_raw(file).ok THEN <<[w |-> "read_failure", path |-> path, line |-> 0]>>
    ELSE LET raw == read_thread_raw(file).raw
             parse == [i \in DOMAIN raw |-> [w |-> "parse_failure", path |-> path, line |-> i]]
             failures == SelectSeq(parse, LAMBDA x : raw[x.line].k = "garbage")
         IN IF LineIsJson(raw[1]) /\ raw[1].isSidechain = "true"
               /\ raw[1].sessionId = main_session_id /\ raw[1].agentId = None
            THEN Append(failures, [w |-> "missing_agent_id", path |-> path, line |-> 0])
            ELSE failures

\* the match on latest_by_agent.get(&record.agent_id)
InsertLatest(latest, record, files) ==
    IF record.agent_id \in DOMAIN latest
    THEN IF file_modified_epoch(files[record.path])
            > file_modified_epoch(files[latest[record.agent_id].path])
         THEN [latest EXCEPT ![record.agent_id] = record]
         ELSE latest
    ELSE [a \in (DOMAIN latest) \cup {record.agent_id} |->
            IF a = record.agent_id THEN record ELSE latest[a]]

\* the loop over candidate_files, in path order
RECURSIVE LatestByAgent(_, _, _)
LatestByAgent(latest, paths, files) ==
    IF paths = <<>> THEN latest
    ELSE IF ~files[Head(paths)].exists
    THEN LatestByAgent(latest, Tail(paths), files)
    ELSE IF analyze_claude_agent_file(Head(paths), files[Head(paths)], MainSessionId).k = "none"
    THEN LatestByAgent(latest, Tail(paths), files)
    ELSE LatestByAgent(
            InsertLatest(latest,
                         analyze_claude_agent_file(Head(paths), files[Head(paths)], MainSessionId),
                         files),
            Tail(paths), files)

RECURSIVE DiscoverWarnings(_, _)
DiscoverWarnings(paths, files) ==
    IF paths = <<>> THEN <<>>
    ELSE IF ~files[Head(paths)].exists THEN DiscoverWarnings(Tail(paths), files)
    ELSE AnalyzeWarnings(Head(paths), files[Head(paths)], MainSessionId)
         \o DiscoverWarnings(Tail(paths), files)

\* agent ids a Claude transcript can carry; ClaudeAgentOrder is the
\* BTreeMap<String, _> key order
ClaudeAgentOrder == <<"a1", "a2">>

\* latest_by_agent.into_values().collect()
RECURSIVE MapValues(_, _)
MapValues(order, map) ==
    IF order = <<>> THEN <<>>
    ELSE IF Head(order) \in DOMAIN map
    THEN <<map[Head(order)]>> \o MapValues(Tail(order), map)
    ELSE MapValues(Tail(order), map)

discover_claude_agents(files) ==
    MapValues(ClaudeAgentOrder, LatestByAgent(EmptyMap, PathOrder, files))

ClaudeListItem(record) ==
    [agent_id |-> record.agent_id, status |-> record.status,
     status_source |-> "inferred", child_thread |-> TRUE, path |-> record.path]

resolve_claude_subagent_view(list, agent_id, files) ==
    LET records == discover_claude_agents(files)
        warnings == DiscoverWarnings(PathOrder, files)
        found == SelectSeq(records,
                    LAMBDA r : normalize_agent_id(r.agent_id) = normalize_agent_id(agent_id))
    IN IF list
       THEN [mode |-> "list",
             agents |-> [i \in DOMAIN records |-> ClaudeListItem(records[i])],
             warnings |-> warnings]
       ELSE IF found # <<>>
       THEN [mode |-> "detail",
             agent_id |-> agent_id,
             lifecycle |-> <<LifecycleEvent("discovered_agent_file",
                                            <<"agent transcript discovered and analyzed">>)>>,
             status |-> found[1].status,
             status_source |-> "inferred",
             child_thread |-> TRUE,
             path |-> found[1].path,
             warnings |-> warnings]
       ELSE [mode |-> "detail",
             agent_id |-> agent_id,
             lifecycle |-> <<>>,
             status |-> STATUS_NOT_FOUND,
             status_source |-> "inferred",
             child_thread |-> FALSE,
             path |-> None,
             warnings |-> Append(warnings, [w |-> "agent_not_found", path |-> None, line |-> 0])]

\* ------------------------------------------------------------------------
\* resolve_subagent_view (service.rs:360-391)
\* ------------------------------------------------------------------------
\* variant: the provider is dispatched on and the parent read before the
\* shape of the query is looked at
resolve_subagent_view_DispatchFirst(uri_provider, list, agent_id, parent, children, files) ==
    IF uri_provider \notin {"codex", "claude"}
    THEN ErrorView("UnsupportedSubagentProvider")
    ELSE IF uri_provider = "codex" /\ ~read_thread_raw(parent).ok
    THEN ErrorView(read_thread_raw(parent).error)
    ELSE IF list /\ agent_id # None THEN ErrorView("InvalidMode")
    ELSE IF ~list /\ agent_id = None THEN ErrorView("InvalidMode")
    ELSE IF uri_provider = "codex"
    THEN resolve_codex_subagent_view(list, agent_id, parent, children)
    ELSE resolve_claude_subagent_view(list, agent_id, files)

resolve_subagent_view(uri_provider, list, agent_id, parent, children, files) ==
    IF list /\ agent_id # None THEN ErrorView("InvalidMode")
    ELSE IF ~list /\ agent_id = None THEN ErrorView("InvalidMode")
    ELSE IF uri_provider = "codex"
    THEN resolve_codex_subagent_view(list, agent_id, parent, children)
    ELSE IF uri_provider = "claude"
    THEN resolve_claude_subagent_view(list, agent_id, files)
    ELSE ErrorView("UnsupportedSubagentProvider")

\* ------------------------------------------------------------------------
\* list_subagents (service.rs:152-249)
\* ------------------------------------------------------------------------
\* a record whose payload has the given "type" and "agent_id" members
PayloadRecord(ptype, agent_id) ==
    [k |-> "json", type |-> "event_msg", ptype |-> ptype,
     call_id |-> None, name |-> None, args |-> NoArgs, output |-> NoOutput,
     agent_id |-> agent_id]

\* payload.get("agent_id").or_else(|| payload.get("agentId")).and_then(as_str)
PayloadAgentId(line) == IF "agent_id" \in DOMAIN line THEN line.agent_id ELSE None

SubagentInfo(agent_id, status, path) ==
    [agent_id |-> agent_id, status |-> status, path |-> path]

\* infos.iter_mut().find(|i| i.agent_id == agent_id): the first index, or 0
RECURSIVE FindInfo(_, _, _)
FindInfo(list, agent_id, i) ==
    IF i > Len(list) THEN 0
    ELSE IF list[i].agent_id = agent_id THEN i
    ELSE FindInfo(list, agent_id, i + 1)

\* one iteration of the loop over raw.lines()
ListCodexLine(list, line) ==
    IF line.k # "json" THEN list
    ELSE IF line.ptype = "spawn_agent"
    THEN Append(list,
                SubagentInfo(IF PayloadAgentId(line) = None THEN "unknown"
                             ELSE PayloadAgentId(line),
                             STATUS_RUNNING, None))
    ELSE IF line.ptype = "close_agent"
    THEN IF FindInfo(list, PayloadAgentId(line), 1) = 0 THEN list
         ELSE [list EXCEPT ![FindInfo(list, PayloadAgentId(line), 1)].status
                                = STATUS_COMPLETED]
    ELSE list

RECURSIVE ListCodexLines(_, _)
ListCodexLines(list, raw) ==
    IF raw = <<>> THEN list
    ELSE ListCodexLines(ListCodexLine(list, Head(raw)), Tail(raw))

list_codex_subagents(parent) ==
    IF ~read_thread_raw(parent).ok THEN <<>>
    ELSE ListCodexLines(<<>>, read_thread_raw(parent).raw)

list_claude_subagents(files) ==
    [i \in DOMAIN discover_claude_agents(files) |->
        SubagentInfo(discover_claude_agents(files)[i].agent_id,
                     discover_claude_agents(files)[i].status,
                     discover_claude_agents(files)[i].path)]

list_subagents(main_provider, parent, files) ==
    IF main_provider = "claude" THEN list_claude_subagents(files)
    ELSE IF main_provider = "codex" THEN list_codex_subagents(parent)
    ELSE <<>>

\* ------------------------------------------------------------------------
\* Subagent correlation as a state machine: writers append lines to the
\* transcript files, and a reader calls resolve_subagent_view on the files
\* as they are.  view holds the result of the last call made since the
\* files last changed.
\* ------------------------------------------------------------------------
ParentFile == [exists |-> TRUE, lines |-> parentRaw]

LinesOnDisk == Len(parentRaw) + Len(childRaw[QueryAgent].lines)

ClaudeLinesOnDisk == Len(claudeFiles["p1"].lines) + Len(claudeFiles["p2"].lines)

\* the agent id asked for in a Claude drill-down
ClaudeQueryAgent == "agent-a1"

\* no extraction has been made
NoExtraction == [call |-> "none", result |-> OkEntries(<<>>), sections |-> <<>>]

\* no ThreadUri::parse call has been made
NotParsed == [ok |-> FALSE, error |-> "NotParsed", provider |-> None,
              session_id |-> <<>>, detail |-> <<>>]

\* no thread URI is being parsed
InitNoUri ==
    /\ uriHead = <<>>
    /\ uriTarget = <<>>
    /\ parsed = NotParsed
    /\ rendered = <<>>
    /\ InitNoCli

\* no thread is being rendered
InitNoThread ==
    /\ threadKind = None
    /\ threadRaw = <<>>
    /\ extracted = NoExtraction
    /\ InitNoUri

InitFiles ==
    /\ parentRaw = <<>>
    /\ childRaw = [a \in Agents |-> NoFile]
    /\ claudeFiles = [p \in Paths |-> NoClaudeFile]
    /\ view = NoView
    /\ infos = NoInfos
    /\ InitNoThread

\* the Codex writer appends a record to the parent rollout
AppendParentLine(line) ==
    /\ provider = "codex"
    /\ LinesOnDisk < MaxLines
    /\ parentRaw' = Append(parentRaw, line)
    /\ view' = NoView
    /\ infos' = NoInfos
    /\ UNCHANGED <<provider, childRaw, claudeFiles>>
    /\ UNCHANGED <<threadVars, uriVars, cliVars, sessionVars, readerVars>>

\* the subagent's rollout file is created
CreateChild ==
    /\ provider = "codex"
    /\ ~childRaw[QueryAgent].exists
    /\ childRaw' = [childRaw EXCEPT ![QueryAgent] = [exists |-> TRUE, lines |-> <<>>]]
    /\ view' = NoView
    /\ infos' = NoInfos
    /\ UNCHANGED <<provider, parentRaw, claudeFiles>>
    /\ UNCHANGED <<threadVars, uriVars, cliVars, sessionVars, readerVars>>

\* the subagent appends a record to its own rollout
AppendChildLine(line) ==
    /\ provider = "codex"
    /\ childRaw[QueryAgent].exists
    /\ LinesOnDisk < MaxLines
    /\ childRaw' = [childRaw EXCEPT ![QueryAgent].lines = Append(@, line)]
    /\ view' = NoView
    /\ infos' = NoInfos
    /\ UNCHANGED <<provider, parentRaw, claudeFiles>>
    /\ UNCHANGED <<threadVars, uriVars, cliVars, sessionVars, readerVars>>

\* Claude appends a record to a candidate file at instant tick
AppendClaudeLine(path, line, tick) ==
    /\ provider = "claude"
    /\ ClaudeLinesOnDisk < MaxClaudeLines
    /\ tick >= claudeFiles[path].mtime
    /\ claudeFiles' = [claudeFiles EXCEPT ![path] =
            [exists |-> TRUE, lines |-> Append(@.lines, line), mtime |-> tick]]
    /\ view' = NoView
    /\ infos' = NoInfos
    /\ UNCHANGED <<provider, parentRaw, childRaw>>
    /\ UNCHANGED <<threadVars, uriVars, cliVars, sessionVars, readerVars>>

ResolveSubagentView(list, agent_id) ==
    /\ view' = resolve_subagent_view(provider, list, agent_id,
                                     ParentFile, childRaw, claudeFiles)
    /\ UNCHANGED <<provider, parentRaw, childRaw, claudeFiles, infos>>
    /\ UNCHANGED <<threadVars, uriVars, cliVars, sessionVars, readerVars>>

NextCodex ==
    \/ \E line \in ParentLines : AppendParentLine(line)
    \/ CreateChild
    \/ \E line \in ChildLines : AppendChildLine(line)
    \/ ResolveSubagentView(TRUE, None)
    \/ ResolveSubagentView(FALSE, QueryAgent)

NextClaude ==
    \/ \E path \in Paths, line \in ClaudeLines, tick \in Ticks :
            AppendClaudeLine(path, line, tick)
    \/ ResolveSubagentView(TRUE, None)
    \/ ResolveSubagentView(FALSE, ClaudeQueryAgent)

InitCodex == provider = "codex" /\ InitFiles
SpecCodex == InitCodex /\ [][NextCodex]_vars

InitClaude == provider = "claude" /\ InitFiles
SpecClaude == InitClaude /\ [][NextClaude]_vars

\* queries of either provider
NextSubagent ==
    \/ provider = "codex" /\ NextCodex
    \/ provider = "claude" /\ NextClaude

InitSubagent == provider \in {"codex", "claude"} /\ InitFiles
SpecSubagent == InitSubagent /\ [][NextSubagent]_vars

\* repeated queries of either provider over transcripts of few kinds of line
RepeatParentLines ==
    { FunctionCall("spawn_agent", NoArgs),
      FunctionCall("wait", [id |-> None, ids |-> <<"A", "B">>]),
      FunctionCallOutput([NoOutput EXCEPT !.agent_id = "A"]),
      FunctionCallOutput([NoOutput EXCEPT !.status = StatusObject(<<"errored">>)]),
      GarbageLine }

RepeatClaudeLines ==
    { ClaudeRecord("a1", "true", MainSessionId, FALSE, None, None),
      ClaudeRecord("a2", "true", MainSessionId, FALSE, "null", "user"),
      ClaudeRecord(None, None, None, FALSE, None, "assistant"),
      GarbageLine }

NextRepeat ==
    \/ \E line \in RepeatParentLines : AppendParentLine(line)
    \/ CreateChild
    \/ \E line \in ChildLines : AppendChildLine(line)
    \/ \E path \in Paths, line \in RepeatClaudeLines, tick \in Ticks :
            AppendClaudeLine(path, line, tick)
    \/ ResolveSubagentView(TRUE, None)
    \/ ResolveSubagentView(FALSE, IF provider = "claude" THEN ClaudeQueryAgent ELSE QueryAgent)

SpecRepeat == InitSubagent /\ [][NextRepeat]_vars

\* queries of any shape to any provider, over short transcripts
MaxModeLines == 2

\* the providers a subagent query may name
QueryProviders == {"codex", "claude", "amp", "gemini", "pi", "opencode"}

\* the agent ids a query may carry: none, or the one asked for
QueryAgentIds == {None, IF provider = "claude" THEN ClaudeQueryAgent ELSE QueryAgent}

NextMode ==
    \/ \E line \in ParentLines : Len(parentRaw) < MaxModeLines /\ AppendParentLine(line)
    \/ \E path \in Paths, line \in ClaudeLines, tick \in Ticks :
            ClaudeLinesOnDisk < MaxModeLines /\ AppendClaudeLine(path, line, tick)
    \/ \E list \in BOOLEAN, agent_id \in QueryAgentIds : ResolveSubagentView(list, agent_id)

InitMode == provider \in QueryProviders /\ InitFiles
SpecMode == InitMode /\ [][NextMode]_vars

\* ------------------------------------------------------------------------
\* Timeline extraction as a state machine: a writer appends records to the
\* thread file (or items to the content list of its message), and a reader
\* extracts the messages or the timeline of the file as it is.
\* ------------------------------------------------------------------------
\* no subagent query is being served
InitNoSubagentFiles ==
    /\ provider = None
    /\ parentRaw = <<>>
    /\ childRaw = [a \in Agents |-> NoFile]
    /\ claudeFiles = [p \in Paths |-> NoClaudeFile]
    /\ view = NoView
    /\ infos = NoInfos

InitNoSubagent == InitNoSubagentFiles /\ InitNoUri

CodexThreadRecords ==
    { CodexRecord("response_item", "message", "user",
                  ArrayContent(<<TextItem("input_text", <<"h">>)>>), <<>>),
      CodexRecord("response_item", "message", "assistant",
                  StringContent(<<" ", "a">>), <<>>),
      CodexRecord("response_item", "message", "developer",
                  StringContent(<<"d">>), <<>>),
      CodexRecord("response_item", "message", "user",
                  StringContent(<<" ">>), <<>>),
      CodexRecord("response_item", "function_call", None, NoContent, <<>>),
      CodexRecord("event_msg", "agent_message", None, NoContent, <<"m">>),
      CodexRecord("event_msg", "context_compacted", None, NoContent, <<>>),
      CodexRecord("compacted", None, None, NoContent, <<>>) }

ClaudeThreadRecords ==
    { ClaudeMessage("user", "user", StringContent(<<"q">>)),
      ClaudeMessage("assistant", "assistant",
                    ArrayContent(<<TextItem("tool_use", <<"x">>),
                                   TextItem("text", <<"a">>)>>)),
      ClaudeMessage("assistant", None, StringContent(<<"b">>)),
      ClaudeMessage("user", "system", StringContent(<<"s">>)),
      ClaudeMessage("progress", "assistant", StringContent(<<"p">>)),
      ClaudeMessage("assistant", "assistant",
                    ArrayContent(<<TextItem("tool_use", <<"x">>)>>)),
      [NoRecordFields EXCEPT !.type = "system", !.subtype = "compact_boundary"],
      [ClaudeMessage("user", "user", StringContent(<<"c">>))
            EXCEPT !.isCompactSummary = TRUE],
      [ClaudeMessage("user", "system", StringContent(<<"s">>))
            EXCEPT !.isCompactSummary = TRUE],
      [ClaudeMessage("user", "user", StringContent(<<" ">>))
            EXCEPT !.isCompactSummary = TRUE],
      [NoRecordFields EXCEPT !.type = "user"] }

OpencodeThreadRecords ==
    { OpencodeMessage("message", "user", <<TextItem("text", <<"q">>)>>),
      OpencodeMessage("message", "assistant",
                      <<TextItem("reasoning", <<"r">>), TextItem("tool", <<"x">>),
                        TextItem("text", <<"a", " ">>)>>),
      OpencodeMessage("message", "system", <<TextItem("text", <<"s">>)>>),
      OpencodeMessage("message", "assistant", <<TextItem("tool", <<"x">>)>>),
      OpencodeMessage("session", "user", <<TextItem("text", <<"q">>)>>) }

AmpThreadRecords ==
    { AmpMessage("user", ArrayContent(<<TextItem("text", <<"q">>)>>)),
      AmpMessage("assistant",
                 ArrayContent(<<[NoItem EXCEPT !.type = "thinking", !.thinking = <<"t">>],
                                TextItem("tool_use", <<"x">>),
                                TextItem("text", <<"a">>)>>)),
      AmpMessage("system", ArrayContent(<<TextItem("text", <<"s">>)>>)),
      AmpMessage("user", ArrayContent(<<TextItem("tool_result", <<"x">>)>>)),
      AmpMessage("assistant", StringContent(<<"a">>)) }

GeminiThreadRecords ==
    { GeminiMessage("user", NoContent, StringContent(<<"q">>)),
      GeminiMessage("gemini", StringContent(<<" ">>),
                    ArrayContent(<<TextItem("text", <<"a">>)>>)),
      GeminiMessage("gemini", StringContent(<<"d">>), StringContent(<<"c">>)),
      GeminiMessage("info", NoContent, StringContent(<<"i">>)),
      GeminiMessage("assistant", NoContent, StringContent(<<"a">>)),
      GeminiMessage("gemini", NoContent,
                    ArrayContent(<<TextItem("function_call", <<"x">>)>>)) }

\* what a writer of the given provider may append to the thread file
ThreadRecords(kind) ==
    (IF kind = "codex" THEN CodexThreadRecords
     ELSE IF kind = "claude" THEN ClaudeThreadRecords
     ELSE IF kind = "opencode" THEN OpencodeThreadRecords
     ELSE IF kind = "amp" THEN AmpThreadRecords
     ELSE GeminiThreadRecords) \cup {BlankLine, GarbageLine}

\* an assistant message of the given provider with an empty content list
EmptyListMessage(kind) ==
    IF kind = "codex"
    THEN CodexRecord("response_item", "message", "assistant", ArrayContent(<<>>), <<>>)
    ELSE IF kind = "claude" THEN ClaudeMessage("assistant", "assistant", ArrayContent(<<>>))
    ELSE IF kind = "opencode" THEN OpencodeMessage("message", "assistant", <<>>)
    ELSE IF kind = "amp" THEN AmpMessage("assistant", ArrayContent(<<>>))
    ELSE GeminiMessage("gemini", NoContent, ArrayContent(<<>>))

\* the content list of a message: "parts" for Opencode, "content" otherwise
ContentList(kind, record) ==
    IF kind = "opencode" THEN record.parts
    ELSE IF record.content.k = "array" THEN record.content.items
    ELSE <<>>

WithContentList(kind, record, items) ==
    IF kind = "opencode" THEN [record EXCEPT !.parts = items]
    ELSE [record EXCEPT !.content = ArrayContent(items)]

\* items a writer may put in a content list: one item with a text field
\* for each tool type, and items that carry text
ContentItems ==
    { TextItem(t, <<"x">>) : t \in {"tool_call", "tool_result", "tool_use", "function_call",
                                    "function_result", "function_response"} }
        \cup { TextItem("text", <<" ", "a">>),
               [NoItem EXCEPT !.type = "thinking", !.text = <<"t">>, !.thinking = <<"t">>],
               StringItem(<<"s">>) }

\* the writer appends a record to the thread file
AppendRecord(record) ==
    /\ Len(threadRaw) < MaxRecords
    /\ threadRaw' = Append(threadRaw, record)
    /\ extracted' = NoExtraction
    /\ UNCHANGED <<threadKind, subagentVars, uriVars, cliVars, sessionVars, readerVars>>

\* the writer appends an item to the content list of the last message
AppendItem(item) ==
    /\ threadRaw # <<>>
    /\ Len(ContentList(threadKind, threadRaw[Len(threadRaw)])) < MaxItems
    /\ threadRaw' = [threadRaw EXCEPT ![Len(threadRaw)] =
            WithContentList(threadKind, @, Append(ContentList(threadKind, @), item))]
    /\ extracted' = NoExtraction
    /\ UNCHANGED <<threadKind, subagentVars, uriVars, cliVars, sessionVars, readerVars>>

ExtractMessages ==
    /\ extracted' = [call |-> "messages",
                     result |-> extract_messages(threadKind, threadRaw),
                     sections |-> <<>>]
    /\ UNCHANGED <<threadKind, threadRaw, subagentVars, uriVars, cliVars, sessionVars, readerVars>>

ExtractTimeline ==
    /\ extracted' = [call |-> "timeline",
                     result |-> extract_timeline_entries(threadKind, threadRaw),
                     sections |-> render_markdown(threadKind, threadRaw)]
    /\ UNCHANGED <<threadKind, threadRaw, subagentVars, uriVars, cliVars, sessionVars, readerVars>>

\* thread files of any provider, record by record
InitExtract ==
    /\ InitNoSubagent
    /\ threadKind \in Providers
    /\ threadRaw = <<>>
    /\ extracted = NoExtraction

NextExtract ==
    \/ \E record \in ThreadRecords(threadKind) : AppendRecord(record)
    \/ ExtractMessages
    \/ ExtractTimeline

SpecExtract == InitExtract /\ [][NextExtract]_vars

\* one message of any provider, its content list item by item
InitContent ==
    /\ InitNoSubagent
    /\ threadKind \in Providers
    /\ threadRaw = <<EmptyListMessage(threadKind)>>
    /\ extracted = NoExtraction

NextContent ==
    \/ \E item \in ContentItems : AppendItem(item)
    \/ ExtractMessages

SpecContent == InitContent /\ [][NextContent]_vars

\* ------------------------------------------------------------------------
\* Thread URI parsing as a state machine: the user types a thread URI piece
\* by piece, the CLI parses what has been typed, and the parsed ThreadUri is
\* written out with as_string.
\* ------------------------------------------------------------------------
\* beginnings of the input: a scheme with its separator, or nothing
UriHeads ==
    { ProviderName(kind) \o Separator : kind \in Providers }
        \cup { <<"c", "u", "r", "s", "o", "r">> \o Separator, <<>> }

\* pieces of the input: two halves of a UUID in mixed case, a second half
\* with a letter that is no hex digit, the prefixes the grammars know,
\* alphanumeric text that is no hex text, and the separator
UriPieces ==
    { <<"0", "1", "9", "C", "8", "7", "1", "c", "-", "b", "1", "f", "9", "-", "7", "F", "6", "0">>,
      <<"-", "9", "c", "4", "f", "-", "8", "7", "E", "D", "0", "9", "f", "1", "3", "5", "9", "2">>,
      <<"-", "9", "c", "4", "f", "-", "8", "7", "E", "G", "0", "9", "f", "1", "3", "5", "9", "2">>,
      ThreadsPrefix, <<"T", "-">>, <<"t", "-">>, <<"s", "e", "s", "_">>,
      <<"a", "Z", "9">>, Separator }

RECURSIVE Flatten(_)
Flatten(pieces) == IF pieces = <<>> THEN <<>> ELSE Head(pieces) \o Flatten(Tail(pieces))

\* the input string given to ThreadUri::parse
UriInput == uriHead \o Flatten(uriTarget)

TypePiece(piece) ==
    /\ Len(uriTarget) < MaxChunks
    /\ uriTarget' = Append(uriTarget, piece)
    /\ parsed' = NotParsed
    /\ rendered' = <<>>
    /\ UNCHANGED <<uriHead, subagentVars, threadVars, cliVars, sessionVars, readerVars>>

ParseUri ==
    /\ parsed' = ThreadUri_parse(UriInput)
    /\ rendered' = <<>>
    /\ UNCHANGED <<uriHead, uriTarget, subagentVars, threadVars, cliVars, sessionVars, readerVars>>

AsString ==
    /\ parsed.ok
    /\ rendered' = as_string(parsed)
    /\ UNCHANGED <<uriHead, uriTarget, parsed, subagentVars, threadVars, cliVars, sessionVars, readerVars>>

InitUri ==
    /\ InitNoSubagentFiles
    /\ threadKind = None
    /\ threadRaw = <<>>
    /\ extracted = NoExtraction
    /\ uriHead \in UriHeads
    /\ uriTarget = <<>>
    /\ parsed = NotParsed
    /\ rendered = <<>>
    /\ InitNoCli

NextUri ==
    \/ \E piece \in UriPieces : TypePiece(piece)
    \/ ParseUri
    \/ AsString

SpecUri == InitUri /\ [][NextUri]_vars

\* ------------------------------------------------------------------------
\* The turl command as a state machine: an agent writes the thread file of
\* one session under one provider's root, and the command is run on a
\* thread URI, with or without --raw.
\* ------------------------------------------------------------------------
MaxFileLines == 2

\* the providers under whose root the thread file may lie
CliRoots == {"codex", "claude"}

\* the schemes of the URIs given to the command
CliHeads ==
    { ProviderName(kind) \o Separator : kind \in CliRoots }
        \cup { <<"c", "u", "r", "s", "o", "r">> \o Separator }

\* the session ids given to the command: two pieces, as long as a UUID
CliTargets ==
    { t \in { <<a, b>> : a \in UriPieces, b \in UriPieces } :
        Len(Flatten(t)) = UuidLength /\ Head(Flatten(t)) # "-" }

\* the lines written to the thread file
CliLines ==
    { CodexRecord("response_item", "message", "user",
                  ArrayContent(<<TextItem("input_text", <<"h">>)>>), <<>>),
      BlankLine, GarbageLine, NonUtf8Line }

\* the thread file is created with zero bytes
CreateThreadFile ==
    /\ ~threadFile.exists
    /\ threadFile' = [threadFile EXCEPT !.exists = TRUE]
    /\ cli' = NotRun
    /\ UNCHANGED <<subagentVars, threadVars, uriVars, sessionVars, readerVars>>

WriteThreadLine(line) ==
    /\ threadFile.exists
    /\ Len(threadFile.lines) < MaxFileLines
    /\ threadFile' = [threadFile EXCEPT !.lines = Append(@, line)]
    /\ cli' = NotRun
    /\ UNCHANGED <<subagentVars, threadVars, uriVars, sessionVars, readerVars>>

RunCli(raw) ==
    /\ cli' = main(UriInput, raw, threadFile)
    /\ UNCHANGED <<threadFile, subagentVars, threadVars, uriVars, sessionVars, readerVars>>

InitCli ==
    /\ InitNoSubagentFiles
    /\ threadKind = None
    /\ threadRaw = <<>>
    /\ extracted = NoExtraction
    /\ uriHead \in CliHeads
    /\ uriTarget \in CliTargets
    /\ parsed = NotParsed
    /\ rendered = <<>>
    /\ threadFile \in { NoThreadFile(root) : root \in CliRoots }
    /\ cli = NotRun
    /\ InitNoSessions

NextCli ==
    \/ CreateThreadFile
    \/ \E line \in CliLines : WriteThreadLine(line)
    \/ \E raw \in BOOLEAN : RunCli(raw)

SpecCli == InitCli /\ [][NextCli]_vars

\* ------------------------------------------------------------------------
\* Session listing as a state machine: agents leave session files under the
\* providers' scan roots, and list_active_sessions is called.
\* ------------------------------------------------------------------------
MaxSessionFiles == 3

\* the instant of the calls, in ticks
ScanNow == 220

\* the max_age of the calls, in ticks: short enough to drop the oldest
\* file, or long
MaxAges == {ScanNow - 101, 10 * ScanNow}

\* instants of modification: the two ticks of the second that is
\* ACTIVE_SECS before now, a recent one, and one after now
SessionInstants ==
    { ScanNow - ACTIVE_SECS * TicksPerSecond, ScanNow - ACTIVE_SECS * TicksPerSecond + 1,
      ScanNow - 2, ScanNow + 4 }

SessionKeys == { <<"claude", "s1">>, <<"claude", "s2">>, <<"codex", "s1">> }

\* the files written: transcripts, a file too short and a file of another
\* extension
SessionFilesWritten ==
    { SessionFile(key[1], key[2], "jsonl", 4 * MIN_FILE_LEN, mtime) :
        key \in SessionKeys, mtime \in SessionInstants }
    \cup { SessionFile("claude", "s1", "json", MIN_FILE_LEN - 1, ScanNow - 2),
           SessionFile("codex", "s1", "txt", 4 * MIN_FILE_LEN, ScanNow - 2) }

\* a file appears under a scan root, after the files the walk already meets
AddSessionFile(file) ==
    /\ Len(sessionFiles) < MaxSessionFiles
    /\ sessionFiles' = Append(sessionFiles, file)
    /\ sessions' = NotListed
    /\ UNCHANGED <<subagentVars, threadVars, uriVars, cliVars, readerVars>>

ListActiveSessions(max_age) ==
    /\ sessions' = [listed |-> TRUE, now |-> ScanNow, max_age |-> max_age,
                    entries |-> list_active_sessions(sessionFiles, ScanNow, max_age)]
    /\ UNCHANGED <<sessionFiles, subagentVars, threadVars, uriVars, cliVars, readerVars>>

InitSessions ==
    /\ InitNoSubagent
    /\ threadKind = None
    /\ threadRaw = <<>>
    /\ extracted = NoExtraction

NextSessions ==
    \/ \E file \in SessionFilesWritten : AddSessionFile(file)
    \/ \E max_age \in MaxAges : ListActiveSessions(max_age)

SpecSessions == InitSessions /\ [][NextSessions]_vars

\* ------------------------------------------------------------------------
\* Incremental reading as a state machine: a writer appends bytes to the
\* file, and the reader polls it with read_new_lines.
\* ------------------------------------------------------------------------
MaxFileBytes == 5

\* the bytes the writer appends
BytesWritten == {"1", "x", Newline, InvalidByte}

\* the file ends where a line ends
AtLineEnd(bytes) == bytes = <<>> \/ bytes[Len(bytes)] = Newline

AppendByte(byte) ==
    /\ Len(readerFile) < MaxFileBytes
    /\ readerFile' = Append(readerFile, byte)
    /\ UNCHANGED <<reader, subagentVars, threadVars, uriVars, cliVars, sessionVars>>

ReadNewLines ==
    /\ reader' = [offset |-> read_new_lines(reader.offset, readerFile).offset,
                  called |-> TRUE,
                  values |-> read_new_lines(reader.offset, readerFile).values,
                  delivered |-> reader.delivered
                                  \o read_new_lines(reader.offset, readerFile).values,
                  seen |-> Len(readerFile),
                  torn |-> reader.torn \/ ~AtLineEnd(readerFile)]
    /\ UNCHANGED <<readerFile, subagentVars, threadVars, uriVars, cliVars, sessionVars>>

InitReader ==
    /\ InitNoSubagent
    /\ threadKind = None
    /\ threadRaw = <<>>
    /\ extracted = NoExtraction

NextReader ==
    \/ \E byte \in BytesWritten : AppendByte(byte)
    \/ ReadNewLines

SpecReader == InitReader /\ [][NextReader]_vars

\* ------------------------------------------------------------------------
\* Properties of subagent correlation
\* ------------------------------------------------------------------------
\* the function_call / function_call_output records of a rollout, in order
LifecycleRecords(raw) ==
    SelectSeq(raw, LAMBDA l : l.k = "json" /\ l.type = "response_item"
                              /\ l.ptype \in {"function_call", "function_call_output"})

SpawnPair(agent_id) ==
    <<FunctionCall("spawn_agent", NoArgs),
      FunctionCallOutput([NoOutput EXCEPT !.agent_id = agent_id])>>

\* a close_agent call for agent_id and an output without a status object
IsClosePairWithoutStatus(records, agent_id) ==
    /\ Len(records) = 2
    /\ records[1] = FunctionCall("close_agent", [id |-> agent_id, ids |-> <<>>])
    /\ records[2].ptype = "function_call_output"
    /\ records[2].output.status.k # "object"

\* the view reports agent_id with the given status and status source
ViewReports(agent_id, status, source) ==
    \/ /\ view.mode = "list"
       /\ \E i \in DOMAIN view.agents :
            /\ view.agents[i].agent_id = agent_id
            /\ view.agents[i].status = status
            /\ view.agents[i].status_source = source
    \/ /\ view.mode = "detail"
       /\ view.agent_id = agent_id
       /\ view.status = status
       /\ view.status_source = source

CodexViewOf(modes) == provider = "codex" /\ view.mode \in modes

ClaudeViewOf(modes) == provider = "claude" /\ view.mode \in modes

\* C1: a parent rollout whose only lifecycle records are one spawn_agent
\* call/output pair naming agent A is reported in list mode as A with status
\* pendingInit and status_source parent_rollout.
C1_SpawnOnlyIsPendingInit ==
    (CodexViewOf({"list"}) /\ LifecycleRecords(parentRaw) = SpawnPair("A"))
        => ViewReports("A", STATUS_PENDING_INIT, "parent_rollout")

\* C2: a spawn_agent pair for A followed by a close_agent pair naming A whose
\* output carries no status object is reported as shutdown, parent_rollout.
C2_CloseWithoutStatusIsShutdown ==
    (/\ CodexViewOf({"list", "detail"})
     /\ Len(LifecycleRecords(parentRaw)) = 4
     /\ SubSeq(LifecycleRecords(parentRaw), 1, 2) = SpawnPair("A")
     /\ IsClosePairWithoutStatus(SubSeq(LifecycleRecords(parentRaw), 3, 4), "A"))
        => ViewReports("A", STATUS_SHUTDOWN, "parent_rollout")

C2_Witness ==
    /\ CodexViewOf({"list"})
    /\ Len(LifecycleRecords(parentRaw)) = 4
    /\ SubSeq(LifecycleRecords(parentRaw), 1, 2) = SpawnPair("A")
    /\ IsClosePairWithoutStatus(SubSeq(LifecycleRecords(parentRaw), 3, 4), "A")
    /\ ViewReports("A", STATUS_SHUTDOWN, "parent_rollout")

\* the precedence levels, highest first
PrecedenceHolds(level, timeline, child_exists) ==
    IF level = 1 THEN STATUS_ERRORED \in Range(timeline.states)
    ELSE IF level = 2 THEN STATUS_SHUTDOWN \in Range(timeline.states)
    ELSE IF level = 3 THEN STATUS_COMPLETED \in Range(timeline.states)
    ELSE IF level = 4 THEN STATUS_RUNNING \in Range(timeline.states) \/ timeline.has_activity
    ELSE IF level = 5 THEN timeline.has_spawn /\ ~timeline.has_activity
    ELSE IF level = 6 THEN child_exists /\ ~timeline.has_spawn /\ ~timeline.has_activity
    ELSE TRUE

PrecedenceStatus ==
    <<StatusPair(STATUS_ERRORED, "parent_rollout"),
      StatusPair(STATUS_SHUTDOWN, "parent_rollout"),
      StatusPair(STATUS_COMPLETED, "parent_rollout"),
      StatusPair(STATUS_RUNNING, "parent_rollout"),
      StatusPair(STATUS_PENDING_INIT, "parent_rollout"),
      StatusPair(STATUS_RUNNING, "child_rollout"),
      StatusPair(STATUS_NOT_FOUND, "inferred")>>

HighestLevel(timeline, child_exists) ==
    CHOOSE level \in 1..7 :
        /\ PrecedenceHolds(level, timeline, child_exists)
        /\ \A higher \in 1..(level - 1) : ~PrecedenceHolds(higher, timeline, child_exists)

\* a non-empty rollout file exists for the agent id
ChildResolves(agent_id) ==
    childRaw[agent_id].exists /\ childRaw[agent_id].lines # <<>>

ParentTimelines == parse_codex_parent_lifecycle(parentRaw).timelines

\* C3: the status of every agent is the one of the highest precedence level
\* (errored > shutdown > completed > running > pendingInit > running by child
\* thread > notFound) that holds of its timeline, whatever the order in which
\* the states were recorded.
C3_StatusPrecedence ==
    /\ CodexViewOf({"list"}) =>
        \A i \in DOMAIN view.agents :
            LET item == view.agents[i]
                level == HighestLevel(ParentTimelines[item.agent_id],
                                      ChildResolves(item.agent_id))
            IN StatusPair(item.status, item.status_source) = PrecedenceStatus[level]
    /\ CodexViewOf({"detail"}) =>
        LET level == HighestLevel(TimelineEntry(ParentTimelines, view.agent_id),
                                  ChildResolves(view.agent_id))
        IN StatusPair(view.status, view.status_source) = PrecedenceStatus[level]

C3_Witness ==
    /\ CodexViewOf({"list"})
    /\ "A" \in DOMAIN ParentTimelines
    /\ ParentTimelines["A"].states = <<STATUS_SHUTDOWN, STATUS_ERRORED>>
    /\ ViewReports("A", STATUS_ERRORED, "parent_rollout")

ChildHasAssistantMessage(agent_id) ==
    \E i \in DOMAIN childRaw[agent_id].lines :
        LET line == childRaw[agent_id].lines[i]
        IN line.k = "json" /\ line.type = "response_item" /\ line.ptype = "message"
           /\ line.role = "assistant"

ChildHasTurnAborted(agent_id) ==
    \E i \in DOMAIN childRaw[agent_id].lines :
        LET line == childRaw[agent_id].lines[i]
        IN line.k = "json" /\ line.type = "event_msg" /\ line.ptype = "turn_aborted"

\* C4: a drill-down for an agent id without lifecycle evidence in the parent
\* rollout whose child thread resolves reports the status of the child:
\* errored with a turn_aborted event, completed with an assistant message and
\* no turn_aborted event; status_source is child_rollout.
C4_DetailStatusFromChild ==
    (/\ CodexViewOf({"detail"})
     /\ view.agent_id \notin DOMAIN ParentTimelines
     /\ ChildResolves(view.agent_id))
        => /\ ChildHasTurnAborted(view.agent_id)
                => ViewReports(view.agent_id, STATUS_ERRORED, "child_rollout")
           /\ (ChildHasAssistantMessage(view.agent_id) /\ ~ChildHasTurnAborted(view.agent_id))
                => ViewReports(view.agent_id, STATUS_COMPLETED, "child_rollout")

\* a candidate file whose first line is a sidechain record of the main session
\* carrying an agent id
ValidCandidate(path) ==
    /\ claudeFiles[path].exists
    /\ claudeFiles[path].lines # <<>>
    /\ claudeFiles[path].lines[1].k = "json"
    /\ claudeFiles[path].lines[1].isSidechain = "true"
    /\ claudeFiles[path].lines[1].sessionId = MainSessionId
    /\ claudeFiles[path].lines[1].agentId # None

\* C5: a drill-down reports notFound exactly when there is no evidence for the
\* agent id: Codex, no timeline from the parent rollout and no child thread
\* that resolves; Claude, no valid sidechain candidate with that agent id.
C5_NotFoundIffNoEvidence ==
    /\ CodexViewOf({"detail"}) =>
        (view.status = STATUS_NOT_FOUND
            <=> (view.agent_id \notin DOMAIN ParentTimelines
                 /\ ~ChildResolves(view.agent_id)))
    /\ ClaudeViewOf({"detail"}) =>
        (view.status = STATUS_NOT_FOUND
            <=> ~\E path \in Paths :
                    /\ ValidCandidate(path)
                    /\ normalize_agent_id(claudeFiles[path].lines[1].agentId)
                        = normalize_agent_id(view.agent_id))

C5_Witness ==
    /\ CodexViewOf({"detail"})
    /\ view.status = STATUS_NOT_FOUND
    /\ "B" \in DOMAIN ParentTimelines
    /\ childRaw[view.agent_id].exists

\* the first line of the file is a sidechain record of the main session
FirstRecordIsSidechainOfMain(path) ==
    /\ claudeFiles[path].lines # <<>>
    /\ claudeFiles[path].lines[1].k = "json"
    /\ claudeFiles[path].lines[1].isSidechain = "true"
    /\ claudeFiles[path].lines[1].sessionId = MainSessionId

\* the paths of the files the view has entries for
ContributingPaths ==
    IF view.mode = "list" THEN {view.agents[i].path : i \in DOMAIN view.agents}
    ELSE IF view.mode = "detail" THEN {view.path} \ {None}
    ELSE {}

\* C6: a candidate file contributes an entry only if its first record has
\* isSidechain true and the main session id; otherwise it contributes none,
\* whatever its later lines hold.
C6_FirstRecordDecides ==
    ClaudeViewOf({"list", "detail"}) =>
        \A path \in ContributingPaths : FirstRecordIsSidechainOfMain(path)

C6_Witness ==
    /\ ClaudeViewOf({"list"})
    /\ Len(claudeFiles["p1"].lines) >= 2
    /\ claudeFiles["p1"].lines[1].k = "json"
    /\ claudeFiles["p1"].lines[1].isSidechain = "false"
    /\ claudeFiles["p1"].lines[2] = ClaudeRecord("a1", "true", MainSessionId, FALSE, None, None)
    /\ "p1" \notin ContributingPaths

\* the status the content flags of a file give, from the set of its records
FlagStatus(path) ==
    LET records == {l \in Range(claudeFiles[path].lines) : l.k = "json"}
    IN IF \E r \in records : r.isApiErrorMessage \/ r.error = "set" THEN STATUS_ERRORED
       ELSE IF \E r \in records : r.type = "assistant" THEN STATUS_COMPLETED
       ELSE IF \E r \in records : r.type = "user" THEN STATUS_RUNNING
       ELSE STATUS_PENDING_INIT

\* C7: the status of a valid sidechain file depends only on the flags
\* accumulated over all its records: errored, else completed, else running,
\* else pendingInit.
C7_StatusFromFlags ==
    /\ ClaudeViewOf({"list"}) =>
        \A i \in DOMAIN view.agents :
            view.agents[i].status = FlagStatus(view.agents[i].path)
    /\ (ClaudeViewOf({"detail"}) /\ view.path # None) =>
        view.status = FlagStatus(view.path)

C7_Witness ==
    /\ ClaudeViewOf({"list"})
    /\ \E i \in DOMAIN view.agents :
        LET lines == claudeFiles[view.agents[i].path].lines
        IN /\ Len(lines) = 3
           /\ lines[2].k = "json" /\ lines[2].type = "assistant"
           /\ lines[3].k = "json" /\ lines[3].type = "user"
           /\ view.agents[i].status = STATUS_COMPLETED

\* C8: discovery returns at most one record per agent id, built from the
\* valid candidate with the greatest modification time among those carrying
\* that agent id.
C8_LatestFileWins ==
    ClaudeViewOf({"list"}) =>
        /\ \A i, j \in DOMAIN view.agents :
            view.agents[i].agent_id = view.agents[j].agent_id => i = j
        /\ \A i \in DOMAIN view.agents : \A path \in Paths :
            (ValidCandidate(path)
             /\ claudeFiles[path].lines[1].agentId = view.agents[i].agent_id)
                => claudeFiles[view.agents[i].path].mtime >= claudeFiles[path].mtime

\* ------------------------------------------------------------------------
\* Properties of timeline extraction
\* ------------------------------------------------------------------------
\* the role a record carries, as its provider stores it
RecordRole(kind, record) ==
    IF kind = "gemini" THEN record.type
    ELSE IF kind = "claude" /\ record.role = None THEN record.type
    ELSE record.role

\* the provider's role table
RoleTable(kind, role) ==
    IF role = "user" THEN "User"
    ELSE IF kind = "gemini" /\ role = "gemini" THEN "Assistant"
    ELSE IF kind # "gemini" /\ role = "assistant" THEN "Assistant"
    ELSE None

ExtractionDone == extracted.call # "none"

MessageEntries == SelectSeq(extracted.result.entries, LAMBDA e : e.kind = "Message")

FileDecodes == \A i \in DOMAIN threadRaw : threadRaw[i].k # "garbage"

\* the entry is the message of a record whose role is in the role table
FromMappedRole(e) ==
    /\ threadRaw[e.line].k = "json"
    /\ RoleTable(threadKind, RecordRole(threadKind, threadRaw[e.line])) # None
    /\ e.role = RoleTable(threadKind, RecordRole(threadKind, threadRaw[e.line]))
    /\ Trim(e.text) # <<>>

IsCodexAgentMessage(record) ==
    /\ threadKind = "codex"
    /\ record.k = "json"
    /\ record.type = "event_msg"
    /\ record.ptype = "agent_message"

\* C9 as stated: for every provider, every ThreadMessage extracted comes
\* from a record whose role maps to User or Assistant under the provider's
\* role table and has text that is non-empty after trimming; records with
\* other roles are dropped without an error.
C9_OnlyMappedRoles ==
    ExtractionDone =>
        /\ FileDecodes => extracted.result.ok
        /\ \A i \in DOMAIN MessageEntries : FromMappedRole(MessageEntries[i])

\* C9, amended: every ThreadMessage extracted comes from a record whose role
\* maps to User or Assistant under the provider's role table and has text
\* that is non-empty after trimming, except that a Codex event_msg record
\* of payload type agent_message, which has no role, yields an Assistant
\* message when its message text is non-empty after trimming; records with
\* other roles are dropped without an error.
C9_OnlyMappedRolesOrAgentMessage ==
    ExtractionDone =>
        /\ FileDecodes => extracted.result.ok
        /\ \A i \in DOMAIN MessageEntries :
              LET e == MessageEntries[i]
              IN IF IsCodexAgentMessage(threadRaw[e.line])
                 THEN e.role = "Assistant" /\ Trim(e.text) # <<>>
                 ELSE FromMappedRole(e)

\* a file with a record of an unmapped role next to a record that yields a
\* message has been extracted
C9_Witness ==
    /\ extracted.call = "messages"
    /\ extracted.result.ok
    /\ Len(threadRaw) = 2
    /\ Len(extracted.result.entries) = 1
    /\ \E i \in DOMAIN threadRaw :
          /\ threadRaw[i].k = "json"
          /\ RecordRole(threadKind, threadRaw[i]) # None
          /\ RoleTable(threadKind, RecordRole(threadKind, threadRaw[i])) = None
          /\ extracted.result.entries[1].line # i

IsToolItem(item) ==
    /\ item.k = "obj"
    /\ item.type \in {"tool_call", "tool_result", "tool_use",
                      "function_call", "function_result", "function_response"}

\* the record without the tool-typed items of its content list
WithoutToolItems(kind, record) ==
    WithContentList(kind, record,
                    SelectSeq(ContentList(kind, record), LAMBDA item : ~IsToolItem(item)))

\* C10: when a message's content is a list, the items typed tool_call,
\* tool_result, tool_use, function_call, function_result or
\* function_response contribute nothing, wherever they sit and although they carry a text
\* field: the messages extracted are those of the same message without
\* these items, and a message whose items are all tool-typed yields none.
C10_ToolItemsContributeNothing ==
    extracted.call = "messages" =>
        LET items == ContentList(threadKind, threadRaw[1])
        IN /\ extracted.result =
                extract_messages(threadKind, <<WithoutToolItems(threadKind, threadRaw[1])>>)
           /\ (\A i \in DOMAIN items : IsToolItem(items[i]))
                => extracted.result.ok /\ extracted.result.entries = <<>>

\* a tool item between two text items: one message of two chunks
C10_Witness ==
    /\ extracted.call = "messages"
    /\ threadKind = "claude"
    /\ LET items == ContentList(threadKind, threadRaw[1])
       IN /\ Len(items) = 3
          /\ ~IsToolItem(items[1])
          /\ IsToolItem(items[2])
          /\ ~IsToolItem(items[3])
    /\ Len(extracted.result.entries) = 1
    /\ Len(extracted.result.entries[1].text) > 3

\* C11: the extracted timeline preserves source order: the entries come
\* from records at strictly increasing positions of the file (so each
\* record yields at most one entry, and entries keep the order of their
\* records whatever their kinds), each entry is the one its record yields,
\* and rendering numbers the entries 1..n in that same order.
C11_TimelinePreservesOrder ==
    (ExtractionDone /\ extracted.result.ok) =>
        LET entries == extracted.result.entries
        IN /\ \A i, j \in DOMAIN entries : i < j => entries[i].line < entries[j].line
           /\ \A i \in DOMAIN entries :
                /\ entries[i].line \in DOMAIN threadRaw
                /\ threadRaw[entries[i].line].k = "json"
                /\ entries[i] = ExtractRecord(threadKind, threadRaw[entries[i].line],
                                              entries[i].line)
           /\ extracted.call = "timeline" =>
                /\ \A i \in DOMAIN threadRaw :
                      (threadRaw[i].k = "json"
                       /\ ExtractRecord(threadKind, threadRaw[i], i).kind # "none")
                          => \E e \in DOMAIN entries : entries[e].line = i
                /\ DOMAIN extracted.sections = DOMAIN entries
                /\ \A i \in DOMAIN entries :
                      /\ extracted.sections[i].number = i
                      /\ extracted.sections[i].line = entries[i].line

\* a Codex agent_message entry after a compaction marker, numbered 1, 2
C11_Witness ==
    /\ extracted.call = "timeline"
    /\ threadKind = "codex"
    /\ Len(extracted.result.entries) = 2
    /\ extracted.result.entries[1].kind = "Compact"
    /\ extracted.result.entries[2].kind = "Message"
    /\ IsCodexAgentMessage(threadRaw[extracted.result.entries[2].line])
    /\ extracted.sections[2].number = 2
    /\ extracted.sections[2].title = "Assistant"

\* the lines of the file that are not blank and do not decode as JSON
UndecodableLines == {i \in DOMAIN threadRaw : threadRaw[i].k = "garbage"}

\* C12: for Codex, Claude and Opencode, if a non-blank line of the file does
\* not decode as JSON, extraction returns InvalidJsonLine with the file path
\* and the 1-based number of the first such line, blank lines counted, and
\* no entries at all; nothing is rendered.
C12_InvalidJsonLineAborts ==
    (ExtractionDone /\ threadKind \in LineProviders /\ UndecodableLines # {}) =>
        /\ ~extracted.result.ok
        /\ extracted.result.error = "InvalidJsonLine"
        /\ extracted.result.path = ThreadPath
        /\ extracted.result.line \in UndecodableLines
        /\ \A i \in UndecodableLines : extracted.result.line <= i
        /\ extracted.result.entries = <<>>
        /\ extracted.sections = <<>>

\* a line that yields a message followed by a line that does not decode
C12_Witness ==
    /\ ExtractionDone
    /\ threadKind \in LineProviders
    /\ Len(threadRaw) = 2
    /\ threadRaw[1].k = "json"
    /\ ExtractRecord(threadKind, threadRaw[1], 1).kind = "Message"
    /\ threadRaw[2].k = "garbage"
    /\ extracted.result.line = 2

\* a compaction marker without a summary of its own
IsPlainCompactionMarker(kind, record) ==
    \/ /\ kind = "codex"
       /\ \/ record.type = "compacted"
          \/ record.type = "event_msg" /\ record.ptype = "context_compacted"
    \/ /\ kind = "claude"
       /\ record.type = "system"
       /\ record.subtype = "compact_boundary"

\* a Claude user record flagged isCompactSummary
IsCompactSummaryRecord(kind, record) ==
    kind = "claude" /\ record.type = "user" /\ record.isCompactSummary

\* the entry extracted from line i, if any
EntriesOfLine(i) == SelectSeq(extracted.result.entries, LAMBDA e : e.line = i)

\* every marker line has exactly one entry, a Compact, and a Compact
\* without summary is rendered with the placeholder
MarkersAreCompact ==
    /\ \A i \in DOMAIN threadRaw :
          (threadRaw[i].k = "json"
           /\ (IsPlainCompactionMarker(threadKind, threadRaw[i])
               \/ IsCompactSummaryRecord(threadKind, threadRaw[i])))
              => /\ Len(EntriesOfLine(i)) = 1
                 /\ EntriesOfLine(i)[1].kind = "Compact"
                 /\ IsPlainCompactionMarker(threadKind, threadRaw[i])
                        => ~EntriesOfLine(i)[1].summary.some
    /\ \A n \in DOMAIN extracted.sections :
          extracted.result.entries[n].kind = "Compact"
              => /\ extracted.sections[n].title = "Context Compacted"
                 /\ ~extracted.result.entries[n].summary.some
                        => extracted.sections[n].body = COMPACT_PLACEHOLDER

\* C13 as stated: a compaction marker becomes a Compact entry and never a
\* Message: Codex compacted / context_compacted records and Claude
\* compact_boundary records yield Compact without summary; a Claude user
\* record flagged isCompactSummary yields Compact whose summary is the
\* record's message text; a Compact without summary is rendered with the
\* placeholder text.
C13_MarkersBecomeCompact ==
    (extracted.call = "timeline" /\ extracted.result.ok) =>
        /\ MarkersAreCompact
        /\ \A i \in DOMAIN threadRaw :
              (threadRaw[i].k = "json" /\ IsCompactSummaryRecord(threadKind, threadRaw[i]))
                  => /\ EntriesOfLine(i)[1].summary.some
                     /\ EntriesOfLine(i)[1].summary.text = extract_text(threadRaw[i].content)

\* the flagged record has a message whose role is in the role table and
\* whose text is non-empty after trimming
HasSummaryText(record) ==
    /\ record.has_message
    /\ RoleTable("claude", RecordRole("claude", record)) # None
    /\ Trim(extract_text(record.content)) # <<>>

\* C13, amended: as above, except that the Compact entry of a Claude user
\* record flagged isCompactSummary carries the record's message text as
\* summary only when the record has a message whose role maps to User or
\* Assistant and whose text is non-empty after trimming; otherwise it has no
\* summary and is rendered with the placeholder text.
C13_MarkersBecomeCompactSummaryIfText ==
    (extracted.call = "timeline" /\ extracted.result.ok) =>
        /\ MarkersAreCompact
        /\ \A i \in DOMAIN threadRaw :
              (threadRaw[i].k = "json" /\ IsCompactSummaryRecord(threadKind, threadRaw[i]))
                  => IF HasSummaryText(threadRaw[i])
                     THEN /\ EntriesOfLine(i)[1].summary.some
                          /\ EntriesOfLine(i)[1].summary.text
                                = extract_text(threadRaw[i].content)
                     ELSE ~EntriesOfLine(i)[1].summary.some

\* a flagged Claude summary rendered as a compaction section with its text
C13_Witness ==
    /\ extracted.call = "timeline"
    /\ threadKind = "claude"
    /\ Len(threadRaw) = 2
    /\ threadRaw[1].k = "json"
    /\ IsCompactSummaryRecord(threadKind, threadRaw[1])
    /\ Len(extracted.sections) = 2
    /\ extracted.sections[1].title = "Context Compacted"
    /\ extracted.sections[1].body = <<"c">>
    /\ extracted.sections[2].title = "Assistant"

\* ------------------------------------------------------------------------
\* Properties of thread URI parsing
\* ------------------------------------------------------------------------
HexLetters == <<"a", "b", "c", "d", "e", "f">>
HexCapitals == <<"A", "B", "C", "D", "E", "F">>

IsLowerHex(c) == c \in Digits \/ \E i \in DOMAIN HexLetters : HexLetters[i] = c

\* c is d, or the capital of the hex letter d
IsCaseOf(c, d) == c = d \/ \E i \in DOMAIN HexLetters : HexLetters[i] = d /\ HexCapitals[i] = c

\* 8-4-4-4-12 hex digits in lower case
IsLowerUuid(id) ==
    /\ Len(id) = 36
    /\ \A i \in DOMAIN id : IF i \in {9, 14, 19, 24} THEN id[i] = "-" ELSE IsLowerHex(id[i])

\* text is lower, an 8-4-4-4-12 UUID in lower case, in some mix of case
IsUuidLoweredTo(text, lower) ==
    /\ IsLowerUuid(lower)
    /\ Len(text) = Len(lower)
    /\ \A i \in DOMAIN text : IsCaseOf(text[i], lower[i])

\* 8-4-4-4-12 hex digits in any mix of case
IsUuid(text) ==
    /\ Len(text) = 36
    /\ \A i \in DOMAIN text :
          IF i \in {9, 14, 19, 24} THEN text[i] = "-"
          ELSE \E d \in Digits \cup {HexLetters[n] : n \in DOMAIN HexLetters} :
                  IsCaseOf(text[i], d)

\* the text typed after the beginning of the input
TypedTarget == Flatten(uriTarget)

\* the provider whose scheme and separator begin the input, if any
HeadProvider ==
    IF \E kind \in Providers : uriHead = ProviderName(kind) \o Separator
    THEN CHOOSE kind \in Providers : uriHead = ProviderName(kind) \o Separator
    ELSE None

ParseDone == parsed # NotParsed

\* C14: for codex, claude and gemini and every id of the 8-4-4-4-12 hex
\* pattern in any mix of case, parse of "<provider>://<id>" succeeds,
\* as_string of the result is "<provider>://" followed by the id in lower
\* case, and parsing that again yields the same ThreadUri.
C14_UuidRoundTrip ==
    (/\ ParseDone
     /\ HeadProvider \in {"codex", "claude", "gemini"}
     /\ IsUuid(TypedTarget))
        => /\ parsed.ok
           /\ parsed.provider = HeadProvider
           /\ rendered # <<>> =>
                /\ IsPrefix(uriHead, rendered)
                /\ IsUuidLoweredTo(TypedTarget,
                                   SubSeq(rendered, Len(uriHead) + 1, Len(rendered)))
                /\ ThreadUri_parse(rendered) = parsed

\* a gemini URI in mixed case has been parsed and written out
C14_Witness ==
    /\ HeadProvider = "gemini"
    /\ IsUuid(TypedTarget)
    /\ ~IsLowerUuid(TypedTarget)
    /\ parsed.ok
    /\ rendered # <<>>

\* the parse outcome of codex://threads/<u> for the typed u
ParsedWithThreads == ThreadUri_parse(ProviderName("codex") \o Separator
                                        \o ThreadsPrefix \o TypedTarget)

\* C15 as stated: for every string u, parse("codex://threads/" + u) and
\* parse("codex://" + u) give the same outcome: the same ThreadUri when u is
\* a valid UUID, and both fail otherwise.
C15_ThreadsSegmentOptional ==
    (ParseDone /\ HeadProvider = "codex") =>
        IF IsUuid(TypedTarget)
        THEN parsed.ok /\ ParsedWithThreads = parsed
        ELSE ~parsed.ok /\ ~ParsedWithThreads.ok

\* C15, amended: for every string u that does not itself begin with
\* "threads/", parse("codex://threads/" + u) and parse("codex://" + u) give
\* the same outcome: the same ThreadUri when u is a valid UUID, and the same
\* failure otherwise.
C15_OneThreadsSegmentOptional ==
    (ParseDone /\ HeadProvider = "codex" /\ ~IsPrefix(ThreadsPrefix, TypedTarget)) =>
        /\ ParsedWithThreads = parsed
        /\ parsed.ok <=> IsUuid(TypedTarget)

\* codex://<uuid> has been parsed
C15_Witness ==
    /\ HeadProvider = "codex"
    /\ IsUuid(TypedTarget)
    /\ parsed.ok
    /\ ParsedWithThreads.ok

\* C16: every ThreadUri returned by parse has a session id of its provider's
\* grammar, case-normalized: a lower-case UUID for codex, claude and gemini;
\* "T-" and a lower-case UUID for amp, whatever the case of the input; the
\* input unchanged, of the form ses_<alphanumeric>+, for opencode.
C16_SessionIdNormalized ==
    parsed.ok =>
        IF parsed.provider \in {"codex", "claude", "gemini"}
        THEN IsLowerUuid(parsed.session_id)
        ELSE IF parsed.provider = "amp"
        THEN /\ IsPrefix(<<"T", "-">>, parsed.session_id)
             /\ IsLowerUuid(SubSeq(parsed.session_id, 3, Len(parsed.session_id)))
        ELSE /\ parsed.provider = "opencode"
             /\ parsed.session_id = TypedTarget
             /\ IsPrefix(<<"s", "e", "s", "_">>, parsed.session_id)
             /\ Len(parsed.session_id) > 4
             /\ \A i \in 5 .. Len(parsed.session_id) : IsAlphanumeric(parsed.session_id[i])

\* an amp id typed with a small t and capitals has been parsed
C16_Witness ==
    /\ parsed.ok
    /\ parsed.provider = "amp"
    /\ TypedTarget[1] = "t"
    /\ parsed.session_id[1] = "T"
    /\ parsed.session_id # TypedTarget

\* the remainder checked against the grammar: the target, less one leading
\* threads/ for codex
TypedRemainder ==
    IF HeadProvider = "codex" /\ IsPrefix(ThreadsPrefix, TypedTarget)
    THEN SubSeq(TypedTarget, Len(ThreadsPrefix) + 1, Len(TypedTarget))
    ELSE TypedTarget

\* the remainder is in the grammar of the provider
InGrammar(kind, id) ==
    IF kind = "amp"
    THEN Len(id) > 2 /\ id[1] \in {"t", "T"} /\ id[2] = "-" /\ IsUuid(SubSeq(id, 3, Len(id)))
    ELSE IF kind = "opencode"
    THEN /\ IsPrefix(<<"s", "e", "s", "_">>, id)
         /\ Len(id) > 4
         /\ \A i \in 5 .. Len(id) : IsAlphanumeric(id[i])
    ELSE IsUuid(id)

\* C17: for an input with a supported scheme whose remainder (after
\* stripping one leading threads/ for codex) is not in the provider's
\* grammar, parse returns InvalidSessionId carrying exactly that remainder,
\* and no ThreadUri.
C17_InvalidSessionIdCarriesRemainder ==
    (ParseDone /\ HeadProvider # None /\ ~InGrammar(HeadProvider, TypedRemainder)) =>
        /\ ~parsed.ok
        /\ parsed.error = "InvalidSessionId"
        /\ parsed.detail = TypedRemainder
        /\ parsed.session_id = <<>>

\* codex://threads/<not a UUID> has been rejected
C17_Witness ==
    /\ HeadProvider = "codex"
    /\ IsPrefix(ThreadsPrefix, TypedTarget)
    /\ Len(TypedRemainder) > 0
    /\ parsed.error = "InvalidSessionId"

\* the pieces typed before the first separator piece
RECURSIVE PiecesBeforeSeparator(_)
PiecesBeforeSeparator(pieces) ==
    IF pieces = <<>> \/ Head(pieces) = Separator THEN <<>>
    ELSE <<Head(pieces)>> \o PiecesBeforeSeparator(Tail(pieces))

\* the input holds a separator
HasSeparator == uriHead # <<>> \/ \E i \in DOMAIN uriTarget : uriTarget[i] = Separator

\* the text before the first separator of the input
TypedScheme ==
    IF uriHead # <<>> THEN SubSeq(uriHead, 1, Len(uriHead) - Len(Separator))
    ELSE Flatten(PiecesBeforeSeparator(uriTarget))

\* C18: parse splits its input at the first "://"; when the text before it
\* is not a supported scheme name, the result is UnsupportedScheme carrying
\* that text, whether or not the remainder is a valid session id.
C18_UnsupportedSchemeFirst ==
    (/\ ParseDone
     /\ HasSeparator
     /\ \A kind \in Providers : TypedScheme # ProviderName(kind))
        => /\ ~parsed.ok
           /\ parsed.error = "UnsupportedScheme"
           /\ parsed.detail = TypedScheme

\* an unsupported scheme followed by a valid UUID has been rejected
C18_Witness ==
    /\ uriHead # <<>>
    /\ HeadProvider = None
    /\ IsUuid(TypedTarget)
    /\ parsed.error = "UnsupportedScheme"

\* ------------------------------------------------------------------------
\* Properties of the turl command
\* ------------------------------------------------------------------------
\* the input names a session of a provider: a known scheme and a UUID
NamesSession == HeadProvider # None /\ IsUuid(TypedTarget)

\* a thread file of the session lies under the root of the URI's provider
FileUnderRoot == threadFile.exists /\ threadFile.root = HeadProvider

\* C19: when the command is run on a session id for which no file exists
\* under the provider's root, the run fails with ThreadNotFound, the message
\* on stderr is "thread not found", no candidate was considered, the
\* resolution was made once, nothing was printed to stdout, and the exit
\* code is not zero.
C19_MissingThreadIsTerminal ==
    (cli.ran /\ NamesSession /\ ~FileUnderRoot) =>
        /\ ~cli.run.ok
        /\ cli.run.error = "ThreadNotFound"
        /\ cli.stderr = <<"error: ", "thread not found">>
        /\ cli.run.candidate_count = 0
        /\ cli.run.resolve_calls = 1
        /\ cli.run.stdout = NoStdout
        /\ cli.code # 0

\* the command was run for a session whose file lies under another
\* provider's root only, and has failed
C19_Witness ==
    /\ cli.ran
    /\ NamesSession
    /\ threadFile.exists
    /\ threadFile.lines # <<>>
    /\ threadFile.root # HeadProvider
    /\ cli.code = 1

\* the file has zero bytes
ZeroBytes(file) == Len(file.lines) = 0

\* some bytes of the file are no UTF-8 text
BadBytes(file) == \E i \in DOMAIN file.lines : file.lines[i] = NonUtf8Line

\* the command was run with --raw and has resolved the thread file
RawRead == cli.ran /\ cli.raw /\ NamesSession /\ FileUnderRoot

\* C20: read_thread_raw of an existing file fails with EmptyThreadFile
\* exactly when the file has zero bytes, with NonUtf8ThreadFile exactly when
\* the file is not empty and not valid UTF-8, and otherwise returns the
\* content of the file unchanged; the command run with --raw fails with the
\* same error or prints that content.
C20_ReadThreadRawChecks ==
    threadFile.exists =>
        /\ (read_thread_raw(threadFile).error = "EmptyThreadFile")
               <=> ZeroBytes(threadFile)
        /\ (read_thread_raw(threadFile).error = "NonUtf8ThreadFile")
               <=> (~ZeroBytes(threadFile) /\ BadBytes(threadFile))
        /\ (~ZeroBytes(threadFile) /\ ~BadBytes(threadFile))
               => /\ read_thread_raw(threadFile).ok
                  /\ read_thread_raw(threadFile).raw = threadFile.lines
        /\ RawRead =>
              /\ cli.run.ok = read_thread_raw(threadFile).ok
              /\ cli.run.error = read_thread_raw(threadFile).error
              /\ cli.run.ok => cli.run.stdout = [k |-> "raw", content |-> threadFile.lines]
              /\ cli.code = (IF ZeroBytes(threadFile) \/ BadBytes(threadFile) THEN 1 ELSE 0)

\* a raw read of a file whose second line is no UTF-8 text has failed
C20_Witness ==
    /\ RawRead
    /\ Len(threadFile.lines) = 2
    /\ threadFile.lines[1] # NonUtf8Line
    /\ threadFile.lines[2] = NonUtf8Line
    /\ cli.run.error = "NonUtf8ThreadFile"

\* ------------------------------------------------------------------------
\* Properties of the session listing
\* ------------------------------------------------------------------------
\* the file an entry was built from
EntryFile(entry) == sessionFiles[entry.path]

\* the files the last call scanned that carry the key of the entry
ScannedWithKey(entry) ==
    { path \in DOMAIN sessionFiles :
        /\ Scanned(sessionFiles[path], sessions.now, sessions.max_age)
        /\ sessionFiles[path].root = entry.provider
        /\ sessionFiles[path].stem = entry.session_id }

NoDuplicateSessions ==
    \A i, j \in DOMAIN sessions.entries :
        SameSession(sessions.entries[i], sessions.entries[j]) => i = j

\* C21: the list has no two entries with the same (provider, session_id),
\* and each entry is built from the file with the greatest modification
\* time among the scanned files sharing its key.
C21_DeduplicatedKeepsLatest ==
    sessions.listed =>
        /\ NoDuplicateSessions
        /\ \A i \in DOMAIN sessions.entries : \A path \in ScannedWithKey(sessions.entries[i]) :
              EntryFile(sessions.entries[i]).mtime >= sessionFiles[path].mtime

\* each entry is built from a scanned file of its key, and no scanned file
\* of its key was modified in a later second
KeepsLatestSecond ==
    sessions.listed =>
        /\ NoDuplicateSessions
        /\ \A i \in DOMAIN sessions.entries :
              /\ sessions.entries[i].path \in ScannedWithKey(sessions.entries[i])
              /\ \A path \in ScannedWithKey(sessions.entries[i]) :
                    sessions.entries[i].mtime_epoch
                        >= sessionFiles[path].mtime \div TicksPerSecond

\* C22: in the list no inactive entry precedes an active one, and among
\* entries of the same activity the modification times do not increase.
C22_ActiveFirstThenRecent ==
    sessions.listed =>
        \A i, j \in DOMAIN sessions.entries :
            i < j =>
                /\ sessions.entries[j].is_active => sessions.entries[i].is_active
                /\ (sessions.entries[i].is_active = sessions.entries[j].is_active)
                      => sessions.entries[i].mtime_epoch >= sessions.entries[j].mtime_epoch

\* three sessions were listed, the walk having met an inactive one before
\* an active one of the same second
C22_Witness ==
    /\ sessions.listed
    /\ Len(sessions.entries) = 3
    /\ sessions.entries[1].is_active
    /\ ~sessions.entries[3].is_active
    /\ \E i, j \in DOMAIN sessions.entries :
          /\ i < j
          /\ sessions.entries[i].path > sessions.entries[j].path
          /\ sessions.entries[i].is_active /\ ~sessions.entries[j].is_active
          /\ sessions.entries[i].mtime_epoch = sessions.entries[j].mtime_epoch

\* ------------------------------------------------------------------------
\* Properties of the subagent query
\* ------------------------------------------------------------------------
\* the shape of the query does not match the mode
ShapeMismatch(list, agent_id) ==
    (list /\ agent_id # None) \/ (~list /\ agent_id = None)

\* C23: a call of resolve_subagent_view whose query shape does not match
\* the mode (list mode with an agent id, drill-down with none) returns
\* InvalidMode, whatever the provider and whatever the files hold, also
\* when the provider has no subagent support or the parent cannot be read.
C23_ShapeMismatchIsInvalidMode ==
    [][\A list \in BOOLEAN, agent_id \in QueryAgentIds :
          (ShapeMismatch(list, agent_id) /\ ResolveSubagentView(list, agent_id))
              => view' = ErrorView("InvalidMode")]_vars

\* a mismatched query to Codex was answered InvalidMode although the parent
\* rollout is empty and reading it would fail
C23_Witness ==
    /\ view = ErrorView("InvalidMode")
    /\ provider = "codex"
    /\ ~read_thread_raw(ParentFile).ok

\* the transcript files the correlation reads
TranscriptFiles == <<parentRaw, childRaw, claudeFiles>>

\* the view in hand answers a query of the given mode on the files as they
\* are (a write to a file discards the view)
AnswersMode(list) == view.mode = (IF list THEN "list" ELSE "detail")

\* the agent id of a query of the given mode
QueryOfMode(list) ==
    IF list THEN None
    ELSE IF provider = "claude" THEN ClaudeQueryAgent ELSE QueryAgent

RECURSIVE CompleteLines(_)
CompleteLines(bytes) ==
    IF \A i \in DOMAIN bytes : bytes[i] # Newline THEN <<>>
    ELSE LET end == CHOOSE i \in DOMAIN bytes :
                        bytes[i] = Newline /\ \A j \in 1 .. (i - 1) : bytes[j] # Newline
         IN <<SubSeq(bytes, 1, end - 1)>>
                \o CompleteLines(SubSeq(bytes, end + 1, Len(bytes)))

\* the lines of a text that are valid JSON, in file order
ValidJsonLines(bytes) ==
    SelectSeq(CompleteLines(bytes), LAMBDA line : IsJsonText(line))

\* what was appended since the last call
AppendedSinceLastCall == SubSeq(readerFile, reader.seen + 1, Len(readerFile))

\* every call so far met a file of complete lines, and so does the next
OnlyCompleteLines == ~reader.torn /\ AtLineEnd(readerFile)

\* C25: when every call meets a file of complete newline-terminated lines,
\* a read_new_lines call returns exactly the valid JSON lines appended
\* since the call before, in file order, lines that are empty or do not
\* parse being skipped (nothing when nothing was appended), has_new_data is
\* false right after the call, and it is true after an append.
C25_ReadsReturnAppendedLines ==
    [][/\ (ReadNewLines /\ OnlyCompleteLines)
            => /\ reader'.values = ValidJsonLines(AppendedSinceLastCall)
               /\ ~has_new_data(reader'.offset, readerFile')
       /\ ((\E byte \in BytesWritten : AppendByte(byte)) /\ ~reader.torn)
            => has_new_data(reader'.offset, readerFile')]_vars

\* no byte of the file is invalid UTF-8
OnlyText(bytes) == \A i \in DOMAIN bytes : bytes[i] # InvalidByte

\* C28: under every interleaving of appends of any length and
\* read_new_lines calls, once the file ends at the end of a line and the
\* reader has been called on it, the values returned by all calls together
\* are exactly the valid JSON lines of the file, each once.
C28_EveryLineDeliveredOnce ==
    (OnlyText(readerFile) /\ AtLineEnd(readerFile)
        /\ reader.called /\ reader.seen = Len(readerFile))
        => reader.delivered = ValidJsonLines(readerFile)

\* ------------------------------------------------------------------------
\* Parent rollouts whose calls carry different call ids
\* ------------------------------------------------------------------------
OtherCallId == "c2"

CallWithId(call_id, name, args) == [FunctionCall(name, args) EXCEPT !.call_id = call_id]

OutputWithId(call_id, output) == [FunctionCallOutput(output) EXCEPT !.call_id = call_id]

PairedLines ==
    { CallWithId(CallId, "spawn_agent", NoArgs),
      CallWithId(OtherCallId, "close_agent", [id |-> "A", ids |-> <<>>]),
      OutputWithId(CallId, [NoOutput EXCEPT !.agent_id = "A"]),
      OutputWithId(OtherCallId, NoOutput),
      GarbageLine }

NextReplay ==
    \/ \E line \in PairedLines : AppendParentLine(line)
    \/ ResolveSubagentView(TRUE, None)

SpecReplay == InitCodex /\ [][NextReplay]_vars

\* the lines of the transcript that are function calls / outputs
IsCallLine(line) ==
    line.k = "json" /\ line.type = "response_item" /\ line.ptype = "function_call"

IsOutputLine(line) ==
    line.k = "json" /\ line.type = "response_item" /\ line.ptype = "function_call_output"

\* the replay state before line i, and after it
ReplayBefore(raw, i) == ReplayFrom(ReplayStart, SubSeq(raw, 1, i - 1), 1)
ReplayAfter(raw, i) == LifecycleLine(ReplayBefore(raw, i), raw[i], i)

\* line i changes a timeline (every interpretation that touches an agent
\* appends a lifecycle event to its timeline)
ChangesTimelines(raw, i) == ReplayAfter(raw, i).timelines # ReplayBefore(raw, i).timelines

\* read off the transcript alone: call line j is open at output line i
OpenAt(raw, j, i) ==
    /\ j < i
    /\ IsCallLine(raw[j])
    /\ raw[j].call_id = raw[i].call_id
    /\ \A m \in (j + 1) .. (i - 1) :
            ~(IsOutputLine(raw[m]) /\ raw[m].call_id = raw[i].call_id)

\* C26: in the Codex replay an output changes a timeline (adds a lifecycle
\* event) only if a function_call with the same call_id stands earlier in
\* the transcript with no output of that call_id in between; every call
\* line is answered by at most one such output, and no other line than an
\* output changes a timeline
C26_OutputNeedsOpenCall ==
    /\ \A i \in 1 .. Len(parentRaw) :
            ChangesTimelines(parentRaw, i)
                => /\ IsOutputLine(parentRaw[i])
                   /\ \E j \in 1 .. Len(parentRaw) : OpenAt(parentRaw, j, i)
    /\ \A j \in 1 .. Len(parentRaw) :
            Cardinality({ i \in 1 .. Len(parentRaw) :
                            ChangesTimelines(parentRaw, i) /\ OpenAt(parentRaw, j, i) }) <= 1
    /\ CodexViewOf({"list"})
            => (view.agents # <<>>
                    <=> \E i \in 1 .. Len(parentRaw) : ChangesTimelines(parentRaw, i))

\* a listed transcript with an interpreted output, the same output again
\* after the call was closed, and an output of a call id never opened
C26_Witness ==
    /\ CodexViewOf({"list"})
    /\ Len(parentRaw) = 4
    /\ IsCallLine(parentRaw[1]) /\ parentRaw[1].call_id = CallId
    /\ IsOutputLine(parentRaw[2]) /\ parentRaw[2].call_id = CallId
    /\ ChangesTimelines(parentRaw, 2)
    /\ parentRaw[3] = parentRaw[2]
    /\ ~ChangesTimelines(parentRaw, 3)
    /\ IsOutputLine(parentRaw[4]) /\ parentRaw[4].call_id = OtherCallId
    /\ ~ChangesTimelines(parentRaw, 4)

\* the transcript with every line that does not parse replaced by a blank one
Blanked(raw) == [i \in DOMAIN raw |-> IF raw[i].k = "garbage" THEN BlankLine ELSE raw[i]]

BlankedFiles(files) ==
    [p \in DOMAIN files |-> [files[p] EXCEPT !.lines = Blanked(@)]]

IsParseFailure(warning) == warning.w = "parse_failure"
IsOtherWarning(warning) == warning.w # "parse_failure"

\* the 1-based numbers of the lines of raw that do not parse, in file order
GarbageLineNumbers(raw) ==
    SelectSeq([i \in DOMAIN raw |-> i], LAMBDA i : raw[i].k = "garbage")

\* the parse-failure warnings of a view, as <<path, line>> pairs
ParseFailuresOf(warnings) ==
    LET failures == SelectSeq(warnings, IsParseFailure)
    IN [i \in DOMAIN failures |->
            <<IF "path" \in DOMAIN failures[i] THEN failures[i].path ELSE None,
              failures[i].line>>]

\* one <<path, line>> pair per line that does not parse, files in path order
RECURSIVE FailuresExpected(_, _)
FailuresExpected(paths, files) ==
    IF paths = <<>> THEN <<>>
    ELSE LET lines == GarbageLineNumbers(files[Head(paths)].lines)
         IN [i \in DOMAIN lines |-> <<Head(paths), lines[i]>>]
            \o FailuresExpected(Tail(paths), files)

\* a view without its parse-failure warnings
SansParseFailures(v) == [v EXCEPT !.warnings = SelectSeq(@, IsOtherWarning)]

\* C27: a line that does not parse adds one warning with its 1-based line
\* number and is otherwise skipped: the Codex replay and the Claude analysis
\* return a view (never an error), whose parse-failure warnings are one per
\* such line, and which is otherwise the view of the same files with those
\* lines blank
C27_UnparseableLineIsSkipped ==
    /\ (provider = "codex" /\ view # NoView /\ parentRaw # <<>>)
            => /\ view.mode \in {"list", "detail"}
               /\ ParseFailuresOf(view.warnings)
                    = [i \in DOMAIN GarbageLineNumbers(parentRaw) |->
                            <<None, GarbageLineNumbers(parentRaw)[i]>>]
               /\ SansParseFailures(view)
                    = resolve_codex_subagent_view(view.mode = "list",
                            IF view.mode = "list" THEN None ELSE view.agent_id,
                            [ParentFile EXCEPT !.lines = Blanked(@)], childRaw)
    /\ (provider = "claude" /\ view # NoView)
            => /\ view.mode \in {"list", "detail"}
               /\ ParseFailuresOf(view.warnings) = FailuresExpected(PathOrder, claudeFiles)
               /\ SansParseFailures(view)
                    = resolve_claude_subagent_view(view.mode = "list",
                            IF view.mode = "list" THEN None ELSE view.agent_id,
                            BlankedFiles(claudeFiles))

\* a listed rollout whose second line, between a spawn_agent call and its
\* output, does not parse: agent A is listed and line 2 is warned about
C27_Witness ==
    /\ CodexViewOf({"list"})
    /\ Len(parentRaw) = 3
    /\ parentRaw[2] = GarbageLine
    /\ view.warnings = <<[w |-> "parse_failure", line |-> 2]>>
    /\ \E i \in DOMAIN view.agents : view.agents[i].agent_id = "A"

\* ------------------------------------------------------------------------
\* Parent rollouts in which one agent is spawned, waited for, closed,
\* resumed and sent input
\* ------------------------------------------------------------------------
GrowthLines ==
    { FunctionCall("spawn_agent", NoArgs),
      FunctionCall("wait", [id |-> None, ids |-> <<"A">>]),
      FunctionCall("close_agent", [id |-> "A", ids |-> <<>>]),
      FunctionCall("resume_agent", [id |-> "A", ids |-> <<>>]),
      FunctionCall("send_input", [id |-> "A", ids |-> <<>>]),
      FunctionCallOutput([NoOutput EXCEPT !.agent_id = "A"]),
      FunctionCallOutput(NoOutput),
      FunctionCallOutput([NoOutput EXCEPT !.status = StatusObject(<<"errored">>)]),
      FunctionCallOutput([NoOutput EXCEPT !.status = StatusObject(<<"completed">>)]),
      FunctionCallOutput([NoOutput EXCEPT !.status = StatusObject(<<"running">>)]) }

NextGrowth ==
    \/ \E line \in GrowthLines : AppendParentLine(line)
    \/ ResolveSubagentView(TRUE, None)

SpecGrowth == InitCodex /\ [][NextGrowth]_vars

\* errored > shutdown > completed > running > pendingInit > notFound; an
\* agent that is not listed ranks below all of them
StatusRank(status) ==
    IF status = STATUS_ERRORED THEN 6
    ELSE IF status = STATUS_SHUTDOWN THEN 5
    ELSE IF status = STATUS_COMPLETED THEN 4
    ELSE IF status = STATUS_RUNNING THEN 3
    ELSE IF status = STATUS_PENDING_INIT THEN 2
    ELSE IF status = STATUS_NOT_FOUND THEN 1
    ELSE 0

\* the list-mode status of an agent for a parent rollout, None when the
\* agent is not listed
ListStatus(raw, children, agent_id) ==
    LET v == resolve_codex_subagent_view(TRUE, None, [exists |-> TRUE, lines |-> raw], children)
        items == IF v.mode = "list"
                 THEN SelectSeq(v.agents, LAMBDA item : item.agent_id = agent_id)
                 ELSE <<>>
    IN IF items = <<>> THEN None ELSE items[1].status

\* C29: appending a record to the parent rollout never moves the list-mode
\* status of an agent to a lower rank
C29_StatusMonotoneUnderGrowth ==
    [][ (\E line \in GrowthLines : parentRaw' = Append(parentRaw, line))
            => \A a \in Agents :
                  StatusRank(ListStatus(parentRaw', childRaw', a))
                    >= StatusRank(ListStatus(parentRaw, childRaw, a)) ]_vars

\* the record at which the agent is first listed as status
RECURSIVE FirstListedAs(_, _, _, _)
FirstListedAs(raw, agent_id, status, n) ==
    IF n > Len(raw) THEN 0
    ELSE IF ListStatus(SubSeq(raw, 1, n), childRaw, agent_id) = status THEN n
    ELSE FirstListedAs(raw, agent_id, status, n + 1)

\* a listed rollout in which A was shut down by the second record pair and
\* then resumed: A is still reported shutdown
C29_Witness ==
    /\ CodexViewOf({"list"})
    /\ Len(parentRaw) = 4
    /\ FirstListedAs(parentRaw, "A", STATUS_SHUTDOWN, 1) = 2
    /\ parentRaw[3] = FunctionCall("resume_agent", [id |-> "A", ids |-> <<>>])
    /\ IsOutputLine(parentRaw[4])
    /\ Len(parse_codex_parent_lifecycle(parentRaw).timelines["A"].events) = 2
    /\ ViewReports("A", STATUS_SHUTDOWN, "parent_rollout")

\* ------------------------------------------------------------------------
\* The two listing entry points over the same files
\* ------------------------------------------------------------------------
ListingLines ==
    { FunctionCall("spawn_agent", NoArgs),
      FunctionCall("close_agent", [id |-> "A", ids |-> <<>>]),
      FunctionCallOutput([NoOutput EXCEPT !.agent_id = "A"]),
      FunctionCallOutput(NoOutput),
      PayloadRecord("spawn_agent", "A"),
      PayloadRecord("close_agent", "A") }

\* a monitor calls list_subagents for the resolved main thread
ListSubagents ==
    /\ infos' = [called |-> TRUE,
                 list |-> list_subagents(provider, ParentFile, claudeFiles)]
    /\ UNCHANGED <<provider, parentRaw, childRaw, claudeFiles, view>>
    /\ UNCHANGED <<threadVars, uriVars, cliVars, sessionVars, readerVars>>

NextListing ==
    \/ \E line \in ListingLines : AppendParentLine(line)
    \/ \E path \in Paths, line \in ClaudeLines, tick \in Ticks :
            AppendClaudeLine(path, line, tick)
    \/ ResolveSubagentView(TRUE, None)
    \/ ListSubagents

SpecListing == InitSubagent /\ [][NextListing]_vars

\* the <<agent id, status>> pairs of a list of items
StatusById(list) == { <<list[i].agent_id, list[i].status>> : i \in DOMAIN list }

\* both entry points have answered for the files as they are
BothListed == view.mode = "list" /\ infos.called

\* C30: for the same files, list_subagents returns the same agent ids as
\* resolve_subagent_view in list mode, each with the same status
C30_ListingsAgree ==
    BothListed => StatusById(infos.list) = StatusById(view.agents)

\* the same for Claude main threads alone
ClaudeListingsAgree ==
    (provider = "claude" /\ BothListed)
        => StatusById(infos.list) = StatusById(view.agents)

====
